---- MODULE Spec2Model ----
(***************************************************************************)
(* Model of the life-path graph backend (src/backend/main.py and           *)
(* src/backend/adk/adk.py): the node/link tables, the add-node,            *)
(* instantiate and delete-node                                             *)
(* handlers, the event synthesizer with its parallel image jobs, and the   *)
(* node-id assignment of add-node.                                         *)
(*                                                                         *)
(* Strings are sequences of tokens: a token is a run of characters the     *)
(* code never looks inside ("Now", "a", "u1"), or one of the characters    *)
(* it does look at (" ", "-", "/").  Concatenation is \o, so f-strings,    *)
(* split(), join() and startswith() are computed, not assumed.             *)
(***************************************************************************)
EXTENDS Integers, Sequences, FiniteSets, TLC

VARIABLES
    nodes,      \* rows of "stem-connect_node"
    links,      \* rows of "stem-connect_link"
    last,       \* the response of the request that completed last
    preNodes,   \* node rows when that request started its final step
    preLinks,   \* link rows when that request started its final step
    synth,      \* one run of generate_life_events_with_adk
    batch,      \* one run of the id-assignment loop of add-node
    bucket,     \* names of the objects in the "node-images" bucket
    preBucket,  \* the bucket when the last request started its final step
    instantiated, \* users whose first request was an instantiate that answered
    inflight,   \* instantiate requests accepted by the worker processes
    suspended,  \* an add-node request between its start and the end of its await
    context,    \* one evaluation of the aging and mortality descriptors
    dfs,        \* one run of the reachability traversal of delete-node, call by call
    writer,     \* the statements of one add-node request, sent one by one
    active_sessions,      \* adk.active_sessions: user -> (queue, message_count, has_initial)
    initial_message_sent, \* adk.initial_message_sent: the users that are marked
    queues,     \* the LiveRequestQueue objects created so far
    starts,     \* calls of start_agent_session between their start and their return
    reply,      \* what the session call that completed last did and answered
    prompts     \* initial interview prompts sent per user since the user's last cleanup

vars == <<nodes, links, last, preNodes, preLinks, synth, batch, bucket, preBucket,
          instantiated, inflight, suspended, context, dfs, writer,
          active_sessions, initial_message_sent, queues, starts, reply, prompts>>

\* the state of the interview sessions
adkVars == <<active_sessions, initial_message_sent, queues, starts, reply, prompts>>

-----------------------------------------------------------------------------
(* Bounds of the model *)

MaxNodes == 3       \* rows of the node table
MaxLinks == 2       \* rows of the link table
MaxBatch == 1       \* num_nodes of an add-node request on the stored graph
MaxCands == 3       \* num_nodes of one synthesizer run, candidates of one batch
MaxText == 4        \* tokens of the text generator's response

-----------------------------------------------------------------------------
(* Strings *)

Empty == << >>
SP == " "
DASH == "-"
SLASH == "/"

Str(tok) == <<tok>>

Users == {Str("u1"), Str("u2")}

\* str.split() with no separator: maximal runs of non-whitespace tokens.
RECURSIVE SplitFrom(_, _, _)
SplitFrom(s, i, cur) ==
    IF i > Len(s)
    THEN IF cur = Empty THEN << >> ELSE <<cur>>
    ELSE IF s[i] = SP
         THEN IF cur = Empty
              THEN SplitFrom(s, i + 1, Empty)
              ELSE <<cur>> \o SplitFrom(s, i + 1, Empty)
         ELSE SplitFrom(s, i + 1, Append(cur, s[i]))

Split(s) == SplitFrom(s, 1, Empty)

\* " ".join(words)
RECURSIVE Join(_)
Join(words) ==
    IF Len(words) = 0 THEN Empty
    ELSE IF Len(words) = 1 THEN words[1]
    ELSE words[1] \o <<SP>> \o Join(Tail(words))

\* words[:3]
FirstThree(words) == SubSeq(words, 1, IF Len(words) < 3 THEN Len(words) ELSE 3)

\* str(counter) for a positive integer, one token per decimal digit
DigitTok == <<"0", "1", "2", "3", "4", "5", "6", "7", "8", "9">>

RECURSIVE IntToStr(_)
IntToStr(k) ==
    IF k < 10 THEN <<DigitTok[k + 1]>>
    ELSE IntToStr(k \div 10) \o <<DigitTok[(k % 10) + 1]>>

\* node_id == "Now" or node_id.startswith("Now-")
IsNowId(id) ==
    \/ id = <<"Now">>
    \/ (Len(id) >= 2 /\ id[1] = "Now" /\ id[2] = DASH)

\* f"Now-{user_id}"
NowIdOf(u) == <<"Now", DASH>> \o u

\* f"{clicked_node.id}-{new_node.id}-{request.user_id}"
LinkId(source, target, u) == source \o <<DASH>> \o target \o <<DASH>> \o u

-----------------------------------------------------------------------------
(* The relational store *)

NodeRow(id, u, image, months) ==
    [id |-> id, userId |-> u, imageName |-> image, timeInMonths |-> months]

LinkRow(source, target, u, months) ==
    [id |-> LinkId(source, target, u), source |-> source, target |-> target,
     userId |-> u, timeInMonths |-> months]

NodeIds(tbl) == {r.id : r \in tbl}

UserNodes(tbl, u) == {r \in tbl : r.userId = u}

UserNodeIds(tbl, u) == {r.id : r \in UserNodes(tbl, u)}

UserLinks(tbl, u) == {l \in tbl : l.userId = u}

\* INSERT ... ON CONFLICT (id) DO UPDATE: what the handler must not do
UpsertRow(tbl, row) == {r \in tbl : r.id # row.id} \cup {row}

\* INSERT ... ON CONFLICT (id) DO NOTHING
InsertIfAbsent(tbl, row) ==
    IF \E r \in tbl : r.id = row.id THEN tbl ELSE tbl \cup {row}

RECURSIVE InsertAll(_, _)
InsertAll(tbl, rows) ==
    IF Len(rows) = 0 THEN tbl
    ELSE InsertAll(InsertIfAbsent(tbl, Head(rows)), Tail(rows))

\* the link table's foreign keys: source and target reference node.id
LinkFKOk(nodeTbl, linkTbl) ==
    LET stored == NodeIds(nodeTbl)
    IN \A l \in linkTbl : l.source \in stored /\ l.target \in stored

-----------------------------------------------------------------------------
(* The reachability traversal of delete_node *)

\* nested def dfs_from_now(current_node): reachable_nodes is the closure's set,
\* all_links the (source, target) pairs read for the user
RECURSIVE dfs_from_now(_, _, _, _), dfs_targets(_, _, _, _)
dfs_from_now(current_node, reachable_nodes, all_links, node_id) ==
    IF current_node \in reachable_nodes \/ current_node = node_id
    THEN reachable_nodes
    ELSE dfs_targets({l[2] : l \in {x \in all_links : x[1] = current_node /\ x[2] # node_id}},
                     reachable_nodes \cup {current_node}, all_links, node_id)

dfs_targets(targets, reachable_nodes, all_links, node_id) ==
    IF targets = {} THEN reachable_nodes
    ELSE LET t == CHOOSE x \in targets : TRUE
         IN dfs_targets(targets \ {t},
                        dfs_from_now(t, reachable_nodes, all_links, node_id),
                        all_links, node_id)

\* the nodes the loop `for node in all_nodes` can stop at: all_nodes is a Python
\* set, so any node matching the pattern may be the one found first
NowCandidates(all_nodes) == {n \in all_nodes : IsNowId(n)}

NoNode == <<"<none>">>

NowChoices(all_nodes) ==
    IF NowCandidates(all_nodes) = {} THEN {NoNode} ELSE NowCandidates(all_nodes)

ReachableAfterRemoval(now_node, all_links, node_id) ==
    IF now_node = NoNode THEN {}
    ELSE dfs_from_now(now_node, {}, all_links, node_id)

-----------------------------------------------------------------------------
(* Responses *)

NoResp ==
    [op |-> "none", user |-> Empty, node |-> Empty, status |-> 0, raised |-> 0,
     stmts |-> 0, dbError |-> FALSE, cascade |-> {}, total |-> 0, remaining |-> 0,
     n |-> 0, ids |-> << >>, conflicts |-> 0, created |-> FALSE,
     images |-> {}, remove_raised |-> {}, deleted_images |-> {},
     time |-> 0, missing |-> {}]

\* raise HTTPException(status_code=500, ...) of the handlers' `except Exception`
\* around a raised exception; `inner` is the status of an HTTPException raised
\* inside the try block (0 when the exception is not an HTTPException)
ErrorResp(op, u, nid, inner, stmts, dbError) ==
    [NoResp EXCEPT !.op = op, !.user = u, !.node = nid, !.status = 500,
                   !.raised = inner, !.stmts = stmts, !.dbError = dbError]

-----------------------------------------------------------------------------
(* DELETE /api/delete-node/{user_id}/{node_id} *)

\* the guard that misses the per-user form of the root id
IsRootRequestLiteralOnly(node_id) == node_id = <<"Now">>

IsRootRequest(node_id) == IsNowId(node_id)

\* an existence check that forgets the owner
NodeStoredAnyUser(tbl, node_id, u) == \E r \in tbl : r.id = node_id

\* SELECT id FROM node WHERE id = %s AND "userId" = %s
NodeStoredFor(tbl, node_id, u) == \E r \in tbl : r.id = node_id /\ r.userId = u

\* SELECT source, target FROM link WHERE "userId" = %s
LinkPairs(tbl, u) == {<<l.source, l.target>> : l \in UserLinks(tbl, u)}

\* the difference without the discard of the target
UnreachableWithTarget(all_nodes, reachable_nodes, node_id) ==
    all_nodes \ reachable_nodes

\* all_nodes - reachable_nodes, with the target discarded
UnreachableNodes(all_nodes, reachable_nodes, node_id) ==
    (all_nodes \ reachable_nodes) \ {node_id}

\* a link delete that forgets the owner
LinksAfterDeleteAnyUser(tbl, u, nodes_to_delete) ==
    {l \in tbl : ~(l.source \in nodes_to_delete \/ l.target \in nodes_to_delete)}

\* DELETE FROM link WHERE "userId" = %s AND (source = %s OR target = %s), per node
LinksAfterDelete(tbl, u, nodes_to_delete) ==
    {l \in tbl : ~(l.userId = u /\ (l.source \in nodes_to_delete \/ l.target \in nodes_to_delete))}

NodesAfterDelete(tbl, u, nodes_to_delete) ==
    {r \in tbl : ~(r.userId = u /\ r.id \in nodes_to_delete)}

Tables(nodeTbl, linkTbl) == [nodes |-> nodeTbl, links |-> linkTbl]

\* an error handler that leaves the open transaction's writes in place
NoRollBack(committed, inTx) == inTx

\* db.rollback(): the tables are again what was committed last, whatever the
\* open transaction had written
RollBack(committed, inTx) == committed

\* the statement of delete_node at which the database raises
DeleteFailures == {"none", "images", "links", "nodes", "commit"}

\* The handler, start to end.  `now_node` is the root the loop found, `fail`
\* the statement at which the database raises: an image-name read (lines
\* 605-616), a link delete (619-626), a node delete (629-636) or the commit
\* (638).  The except clause of lines 654-656 rolls the transaction back.
\* The result is the new tables and the response.
\* lines 604-616: the image names of the rows about to be deleted
node_images_to_delete(tbl, u, nodes_to_delete) ==
    {r.imageName : r \in {x \in tbl : /\ x.userId = u
                                       /\ x.id \in nodes_to_delete
                                       /\ x.imageName # Empty}}

\* a cleanup that does not wait for the commit
ImagesRemovedEarly(images, rmFail, committed) == images \ rmFail

\* lines 640-650: reached only after db.commit() has returned; remove_object
\* is called for every collected image, and one that raises (rmFail) is
\* logged and skipped
ImagesRemoved(images, rmFail, committed) ==
    IF committed THEN images \ rmFail ELSE {}

delete_node(u, node_id, now_node, fail, rmFail) ==
    LET all_nodes == UserNodeIds(nodes, u)
        all_links == LinkPairs(links, u)
        reachable_nodes == ReachableAfterRemoval(now_node, all_links, node_id)
        unreachable_nodes == UnreachableNodes(all_nodes, reachable_nodes, node_id)
        nodes_to_delete == {node_id} \cup unreachable_nodes
        newLinks == LinksAfterDelete(links, u, nodes_to_delete)
        newNodes == NodesAfterDelete(nodes, u, nodes_to_delete)
        images == node_images_to_delete(nodes, u, nodes_to_delete)
        unchanged(r) == [nodes |-> nodes, links |-> links, bucket |-> bucket, resp |-> r]
        \* what the open transaction has written when the statement raises; a
        \* node delete that breaks a foreign key raises after the link deletes
        inTx == IF fail = "images" THEN Tables(nodes, links)
                ELSE IF fail = "links"
                THEN Tables(nodes, LinksAfterDelete(links, u, {node_id}))
                ELSE IF fail = "commit" THEN Tables(newNodes, newLinks)
                ELSE Tables(nodes, newLinks)
        rolledBack == RollBack(Tables(nodes, links), inTx)
        \* statements run: the check, two reads, then per node one image read,
        \* one link delete and one node delete
        stmtCount == 3 + 3 * Cardinality(nodes_to_delete)
    IN  IF IsRootRequest(node_id)
        THEN unchanged(ErrorResp("delete", u, node_id, 400, 0, FALSE))
        ELSE IF ~NodeStoredFor(nodes, node_id, u)
        THEN unchanged(ErrorResp("delete", u, node_id, 404, 1, FALSE))
        ELSE IF fail # "none" \/ ~LinkFKOk(newNodes, newLinks)
        THEN [nodes |-> rolledBack.nodes, links |-> rolledBack.links,
              bucket |-> bucket \ ImagesRemoved(images, rmFail, FALSE),
              resp |-> [ErrorResp("delete", u, node_id, 0, stmtCount, TRUE)
                            EXCEPT !.images = images]]
        ELSE [nodes |-> newNodes, links |-> newLinks,
              bucket |-> bucket \ ImagesRemoved(images, rmFail, TRUE),
              resp |-> [NoResp EXCEPT !.op = "delete", !.user = u, !.node = node_id,
                                      !.images = images,
                                      !.remove_raised = images \cap rmFail,
                                      !.deleted_images =
                                            ImagesRemoved(images, rmFail, TRUE),
                                      !.status = 200, !.stmts = stmtCount,
                                      !.cascade = unreachable_nodes,
                                      !.total = Cardinality(nodes_to_delete),
                                      !.remaining = Cardinality(all_nodes)
                                                    - Cardinality(nodes_to_delete)]]

-----------------------------------------------------------------------------
(* The event synthesizer: generate_life_events_with_adk *)

\* One element of the array the text generator returned, after json.loads: a
\* dict with the keys in `has`, or a value that is no dict at all.
Element(isDict, has, name, type, months, score) ==
    [isDict |-> isDict, has |-> has, name |-> name, type |-> type,
     time_months |-> months, positivity_score |-> score,
     image_name |-> Empty, image_url |-> Empty]

AllKeys == {"name", "title", "description", "type", "time_months", "positivity_score"}

NonDict == Element(FALSE, {}, Empty, "", 0, 0)

\* The raw response text, as tokens: "[" (lb), "]" (rb), text that is no JSON
\* (junk), and one JSON value (elem) carrying what it parses to.
Tok(t, e) == [t |-> t, e |-> e]
LB == Tok("lb", NonDict)
RB == Tok("rb", NonDict)
JUNK == Tok("junk", NonDict)
Elem(e) == Tok("elem", e)

\* response_text.find("["), 0-based, -1 when absent
RECURSIVE FindLB(_, _)
FindLB(text, i) ==
    IF i > Len(text) THEN -1
    ELSE IF text[i].t = "lb" THEN i - 1
    ELSE FindLB(text, i + 1)

\* response_text.rfind("]"), 0-based, -1 when absent
RECURSIVE RFindRB(_, _)
RFindRB(text, i) ==
    IF i < 1 THEN -1
    ELSE IF text[i].t = "rb" THEN i - 1
    ELSE RFindRB(text, i - 1)

\* json.loads of the tokens between an opening and a closing bracket: the
\* top-level values in order, a nested array counting as one non-dict value;
\* text that is no JSON, or an unbalanced bracket, is a JSONDecodeError
RECURSIVE ParseValues(_, _, _, _)
ParseValues(toks, i, depth, acc) ==
    IF i > Len(toks) THEN [ok |-> depth = 0, events |-> acc]
    ELSE IF toks[i].t = "junk" THEN [ok |-> FALSE, events |-> << >>]
    ELSE IF toks[i].t = "lb"
         THEN ParseValues(toks, i + 1, depth + 1,
                          IF depth = 0 THEN Append(acc, NonDict) ELSE acc)
    ELSE IF toks[i].t = "rb"
         THEN IF depth = 0 THEN [ok |-> FALSE, events |-> << >>]
              ELSE ParseValues(toks, i + 1, depth - 1, acc)
    ELSE ParseValues(toks, i + 1, depth,
                     IF depth = 0 THEN Append(acc, toks[i].e) ELSE acc)

JsonLoads(json_str) ==
    ParseValues(SubSeq(json_str, 2, Len(json_str) - 1), 1, 0, << >>)

\* lines 400-405: the extraction of the array and its parse; found = FALSE is
\* the "No JSON array found" branch, ok = FALSE the JSONDecodeError branch
ExtractEvents(response_text) ==
    LET start_idx == FindLB(response_text, 1)
        end_idx == RFindRB(response_text, Len(response_text)) + 1
    IN  IF start_idx >= 0 /\ end_idx > start_idx
        THEN LET parsed == JsonLoads(SubSeq(response_text, start_idx + 1, end_idx))
             IN [found |-> TRUE, ok |-> parsed.ok, events |-> parsed.events]
        ELSE [found |-> FALSE, ok |-> FALSE, events |-> << >>]

\* one draw shared by all the events of the request
EventsConfigOneDraw(req, rnd) ==
    [i \in 1..req.n |->
        [time_months |-> IF req.time_in_months > 0 THEN req.time_in_months ELSE rnd[1].months,
         positivity |-> IF req.positivity >= 0 THEN req.positivity ELSE rnd[1].score]]

\* events_config: the per-event time and positivity, fixed by the request or
\* drawn per event (rnd[i] are the draws of random.randint)
EventsConfig(req, rnd) ==
    [i \in 1..req.n |->
        [time_months |-> IF req.time_in_months > 0 THEN req.time_in_months ELSE rnd[i].months,
         positivity |-> IF req.positivity >= 0 THEN req.positivity ELSE rnd[i].score]]

\* line 453: the fallback list
Fallback(req, rnd) ==
    [i \in 1..req.n |->
        Element(TRUE, AllKeys, <<"Event", SP>> \o IntToStr(i), "fallback",
                EventsConfig(req, rnd)[i].time_months, EventsConfig(req, rnd)[i].positivity)]

\* events[:num_nodes]
FirstN(events, n) == SubSeq(events, 1, IF Len(events) < n THEN Len(events) ELSE n)

\* lines 414-421: building the image tasks reads event["name"] and
\* event["description"]; a missing key or a non-dict element raises
TasksBuildable(selected_events) ==
    \A i \in 1..Len(selected_events) :
        /\ selected_events[i].isDict
        /\ {"name", "description"} \subseteq selected_events[i].has

\* The exception raised inside the try block of lines 290-445, "none" when
\* there is none.  gen.kind = "raise": generate_node_response raised.
SynthException(req, gen) ==
    IF gen.kind = "raise" THEN "GeneratorError"
    ELSE LET x == ExtractEvents(gen.text)
         IN IF ~x.found THEN "none"
            ELSE IF ~x.ok THEN "JSONDecodeError"
            ELSE IF Len(x.events) < req.n THEN "none"
            ELSE IF \E i \in 1..req.n : ~x.events[i].isDict THEN "TypeError"
            ELSE IF ~TasksBuildable(FirstN(x.events, req.n)) THEN "KeyError"
            ELSE "none"

\* except (json.JSONDecodeError, ValueError), line 443
InnerCatches(exc) == exc \in {"JSONDecodeError", "ValueError"}

\* an outer handler as narrow as the inner one
OuterCatchesParseErrorsOnly(exc) == exc \in {"JSONDecodeError", "ValueError"}

\* except Exception, line 446
OuterCatches(exc) == exc \in {"JSONDecodeError", "ValueError", "KeyError", "TypeError", "GeneratorError"}

\* The path the generator's behaviour selects: "images" when the array is
\* accepted and the image jobs are started, "fallback" when the function
\* falls through to line 453, "raise" when an exception leaves the function.
SynthPath(req, gen) ==
    LET exc == SynthException(req, gen)
    IN  IF exc # "none"
        THEN IF InnerCatches(exc) \/ OuterCatches(exc) THEN "fallback" ELSE "raise"
        ELSE LET x == ExtractEvents(gen.text)
             IN IF x.found /\ Len(x.events) >= req.n THEN "images" ELSE "fallback"

SelectedEvents(req, gen) == FirstN(ExtractEvents(gen.text).events, req.n)

-----------------------------------------------------------------------------
(* The image pipeline: generate_event_image *)

Lower(tok) == IF tok = "Now" THEN "now" ELSE IF tok = "Event" THEN "event" ELSE tok

\* event_name.replace(" ", "-").replace("/", "-").lower()
SafeEventName(event_name) ==
    [i \in 1..Len(event_name) |->
        IF event_name[i] = SP \/ event_name[i] = SLASH THEN DASH ELSE Lower(event_name[i])]

\* f"{safe_event_name}-{user_id}{file_extension}"
ImageFilename(event_name, u, ext) == SafeEventName(event_name) \o <<DASH>> \o u \o <<ext>>

SignedUrl(filename) == <<"url:">> \o filename

\* What one job returns, by what happens inside it.  Everything inside the
\* function's try block (lines 567-766) ends in a pair; "escaped" is an
\* exception that leaves the coroutine all the same, which gather hands back as
\* the job's result and lines 427-430 test for.
\*   ok        image found, uploaded, presigned
\*   nokey     no GEMINI_API_KEY
\*   genraise  the generator call raised
\*   noimage   the stream ended without an inline image
\*   putfail   put_object raised
\*   signfail  presigned_get_object raised S3Error
JobOutcomes == {"ok", "nokey", "genraise", "noimage", "putfail", "signfail", "escaped"}

generate_event_image(u, event_name, outcome) ==
    IF outcome = "ok"
    THEN [raised |-> FALSE, image_name |-> ImageFilename(event_name, u, ".png"),
          image_url |-> SignedUrl(ImageFilename(event_name, u, ".png"))]
    ELSE IF outcome = "signfail"
    THEN [raised |-> FALSE, image_name |-> ImageFilename(event_name, u, ".png"),
          image_url |-> Empty]
    ELSE IF outcome = "escaped"
    THEN [raised |-> TRUE, image_name |-> Empty, image_url |-> Empty]
    ELSE [raised |-> FALSE, image_name |-> Empty, image_url |-> Empty]

\* lines 426-435 for one event: the result of its job written into the event
Decorate(event, result) ==
    IF result.raised
    THEN [event EXCEPT !.image_name = Empty, !.image_url = Empty,
                       !.has = @ \cup {"image_name", "image_url"}]
    ELSE [event EXCEPT !.image_name = result.image_name, !.image_url = result.image_url,
                       !.has = @ \cup {"image_name", "image_url"}]

\* zip(selected_events, image_results) taken in completion order instead
DecorateAllByCompletion(selected_events, image_results, order) ==
    [i \in 1..Len(selected_events) |-> Decorate(selected_events[i], image_results[order[i]])]

\* zip(selected_events, image_results): asyncio.gather returns the results in
\* the order of the tasks it was given
DecorateAll(selected_events, image_results, order) ==
    [i \in 1..Len(selected_events) |-> Decorate(selected_events[i], image_results[i])]

\* The whole of generate_life_events_with_adk: `gen` is what the text generator
\* does, outcomes[i] what happens inside image job i, rnd the random draws.
\* The result is the list returned and whether an exception left the function.
generate_life_events_with_adk(req, gen, outcomes, rnd) ==
    IF SynthPath(req, gen) = "images"
    THEN LET selected_events == SelectedEvents(req, gen)
             image_results == [i \in 1..req.n |->
                 generate_event_image(req.user_id, selected_events[i].name, outcomes[i])]
         IN [raised |-> FALSE,
             events |-> DecorateAll(selected_events, image_results, [i \in 1..req.n |-> i])]
    ELSE IF SynthPath(req, gen) = "fallback"
    THEN [raised |-> FALSE, events |-> Fallback(req, rnd)]
    ELSE [raised |-> TRUE, events |-> << >>]

-----------------------------------------------------------------------------
(* add-node: the node ids (main.py lines 381-390) *)

\* name_words = ai_content["name"].split()[:3]; readable_id = " ".join(name_words)
ReadableId(name) == Join(FirstThree(Split(name)))

\* a loop that gives up after the first suffix
RECURSIVE SuffixOnce(_, _, _, _)
SuffixOnce(readable_id, base_id, counter, taken) ==
    IF readable_id \in taken /\ counter = 1
    THEN SuffixOnce(base_id \o <<SP>> \o IntToStr(counter), base_id, counter + 1, taken)
    ELSE readable_id

\* while any(node.id == readable_id for node in return_nodes): ...
RECURSIVE SuffixUntilFree(_, _, _, _)
SuffixUntilFree(readable_id, base_id, counter, taken) ==
    IF readable_id \in taken
    THEN SuffixUntilFree(base_id \o <<SP>> \o IntToStr(counter), base_id, counter + 1, taken)
    ELSE readable_id

\* the id of one candidate, given the ids already in return_nodes
NextId(name, assigned) ==
    SuffixUntilFree(ReadableId(name), ReadableId(name), 1, {assigned[j] : j \in 1..Len(assigned)})

\* the ids of a list of candidates, in candidate order
RECURSIVE AssignIds(_, _)
AssignIds(names, assigned) ==
    IF Len(names) = 0 THEN assigned
    ELSE AssignIds(Tail(names), Append(assigned, NextId(Head(names), assigned)))

-----------------------------------------------------------------------------
(* POST /api/add-node *)

\* the keys the loop of lines 377-397 reads with ai_content[...]
RequiredKeys == {"name", "description", "type", "title"}

\* What the handler does after generate_life_events_with_adk has returned
\* (lines 377-457), for the request r; `got` is what the call returned (the
\* list, or that it raised).  `fail` is the statement at
\* which the database raises: "none", "clicked" (line 410) or "batch" (lines
\* 427-449).  No await separates these lines, so they run as one step.
\* the draws of random.randint, unused when time and positivity are fixed
FixedRnd == [i \in 1..(MaxCands + 1) |-> [months |-> 1, score |-> 0]]

\* line 393: the time of a new node, the event's own when it has one, else the
\* request's when positive, else a random draw
event_time_months(ai_content, r) ==
    IF "time_months" \in ai_content.has THEN ai_content.time_months
    ELSE IF r.time > 0 THEN r.time
    ELSE FixedRnd[1].months

\* line 405: the time given to a clicked node that the request's path lacks
PlaceholderMonths == 1

\* the per-event time of the target node as the time of a link
link_time_of_event(r, ai_content) == event_time_months(ai_content, r)

\* line 423: timeInMonths=request.time_in_months, the same for every link
link_time(r, ai_content) == r.time

\* a handler that takes the clicked node to be stored already
clicked_taken_as_stored(tbl, row) == tbl

\* lines 408-418: the clicked node is inserted, and committed, unless a row
\* with its id is stored
ensure_clicked_stored(tbl, row) == InsertIfAbsent(tbl, row)

add_node_finish(r, got, fail) ==
    LET ai_events == got.events
        keysOk == \A i \in 1..Len(ai_events) : RequiredKeys \subseteq ai_events[i].has
        ids == AssignIds([i \in 1..Len(ai_events) |-> ai_events[i].name], << >>)
        return_nodes == [i \in 1..Len(ai_events) |->
                            NodeRow(ids[i], r.user, ai_events[i].image_name,
                                    event_time_months(ai_events[i], r))]
        given == r.clicked # Empty
        afterClicked == IF given THEN ensure_clicked_stored(nodes,
                                NodeRow(r.clicked, r.user, Empty, PlaceholderMonths))
                        ELSE nodes
        new_links == IF given
                     THEN [i \in 1..Len(ids) |->
                            LinkRow(r.clicked, ids[i], r.user, link_time(r, ai_events[i]))]
                     ELSE << >>
        nodes2 == InsertAll(afterClicked, return_nodes)
        links2 == InsertAll(links, new_links)
        attempted == (IF given THEN 1 ELSE 0) + Len(return_nodes) + Len(new_links)
        written == (Cardinality(nodes2) - Cardinality(nodes))
                   + (Cardinality(links2) - Cardinality(links))
        \* the keys the generator left out of some event
        missing == UNION {AllKeys \ ai_events[i].has : i \in 1..Len(ai_events)}
        err(dbError) == [ErrorResp("add", r.user, r.clicked, 0, 0, dbError)
                            EXCEPT !.n = r.n, !.time = r.time, !.missing = missing]
        \* lines 450-452: the rollback of the batch, after the commit of line 418;
        \* the batch raises at a link insert, the nodes already inserted
        rolledBack == RollBack(Tables(afterClicked, links), Tables(nodes2, links))
    IN  IF got.raised \/ ~keysOk
        THEN [nodes |-> nodes, links |-> links, resp |-> err(FALSE)]
        ELSE IF given /\ fail = "clicked"
        THEN [nodes |-> nodes, links |-> links, resp |-> err(TRUE)]
        ELSE IF fail = "batch" \/ ~LinkFKOk(nodes2, links2)
        THEN [nodes |-> rolledBack.nodes, links |-> rolledBack.links, resp |-> err(TRUE)]
        ELSE [nodes |-> nodes2, links |-> links2,
              resp |-> [NoResp EXCEPT !.op = "add", !.user = r.user, !.node = r.clicked,
                                      !.status = 200, !.n = r.n, !.ids = ids,
                                      !.time = r.time, !.missing = missing,
                                      !.stmts = attempted,
                                      !.conflicts = attempted - written]]

-----------------------------------------------------------------------------
(* POST /api/instantiate/{user_id} *)

\* SELECT id FROM node WHERE (id = 'Now' OR id = 'Now-{user_id}') AND "userId" = %s
ExistingNowNode(tbl, u) ==
    \E r \in tbl : (r.id = <<"Now">> \/ r.id = NowIdOf(u)) /\ r.userId = u

\* The handler.  Its INSERT has no ON CONFLICT clause, so an id already stored
\* (for another user) is a unique violation.  `fail` is a database error.
\* Lines 511-527, what the handler does once fetchone has returned:
\* existing_node is whether the SELECT found a row.
instantiate_after_select(u, existing_node) ==
    IF existing_node
    THEN [nodes |-> nodes, links |-> links,
          resp |-> [NoResp EXCEPT !.op = "instantiate", !.user = u, !.node = <<"Now">>,
                                  !.status = 200, !.stmts = 1, !.created = FALSE]]
    ELSE IF NowIdOf(u) \in NodeIds(nodes)
    THEN [nodes |-> nodes, links |-> links,
          resp |-> ErrorResp("instantiate", u, Empty, 0, 2, TRUE)]
    ELSE [nodes |-> nodes \cup {NodeRow(NowIdOf(u), u, Empty, 0)}, links |-> links,
          resp |-> [NoResp EXCEPT !.op = "instantiate", !.user = u, !.node = NowIdOf(u),
                                  !.status = 200, !.stmts = 2, !.created = TRUE]]

instantiate_user_node(u, fail) ==
    IF fail
    THEN [nodes |-> nodes, links |-> links,
          resp |-> ErrorResp("instantiate", u, Empty, 0, 1, TRUE)]
    ELSE instantiate_after_select(u, ExistingNowNode(nodes, u))

-----------------------------------------------------------------------------
(* The requests on the stored graph *)

\* sequences over S of length lo..hi
SeqsOf(S, lo, hi) == UNION {[1..m -> S] : m \in lo..hi}

EventA == Element(TRUE, AllKeys, <<"a">>, "career", 6, 50)
EventB == Element(TRUE, AllKeys, <<"b">>, "health", 6, 50)
EventNoType == Element(TRUE, AllKeys \ {"type"}, <<"a">>, "", 6, 50)
EventNoName == Element(TRUE, AllKeys \ {"name"}, Empty, "career", 6, 50)

GenRaise == [kind |-> "raise", text |-> << >>]
GenText(text) == [kind |-> "text", text |-> text]

\* what the text generator does during a request on the stored graph
GraphGens ==
    {GenRaise, GenText(<<JUNK>>)}
    \cup {GenText(<<LB, Elem(EventNoType), RB>>)}
    \cup {GenText(<<LB>> \o es \o <<RB>>) : es \in SeqsOf({Elem(EventA)}, 0, MaxBatch)}

GraphJobOutcomes == {"noimage"}
GraphTimes == {6}
GraphPositivity == {50}

AddFailures == {"none", "select", "clicked", "batch"}

AbsentId == <<"zz">>

\* clicked_node_id of the request: none, a root id, or a node of the user's graph
ClickChoices(u) == {Empty} \cup {NowIdOf(v) : v \in Users} \cup UserNodeIds(nodes, u)

\* node_id of the request: a root id in either form, an id stored nowhere, or
\* any stored id, the user's or not
DeleteChoices(u) == {<<"Now">>, NowIdOf(u), AbsentId} \cup NodeIds(nodes)

Completed(out, newBucket) ==
    /\ nodes' = out.nodes
    /\ links' = out.links
    /\ last' = out.resp
    /\ preNodes' = nodes
    /\ preLinks' = links
    /\ bucket' = newBucket
    /\ preBucket' = bucket

\* The handler, start to end: lines 353-375 read the user's links and call
\* the synthesizer, the rest is add_node_finish.  "select" is a database error
\* at the read of line 356.
add_node(r, got, fail) ==
    IF fail = "select"
    THEN [nodes |-> nodes, links |-> links,
          resp |-> [ErrorResp("add", r.user, r.clicked, 0, 1, TRUE) EXCEPT !.n = r.n]]
    ELSE add_node_finish(r, got, fail)

\* what the call of line 365 can return, by the request's user, count, time
\* and positivity
GraphSynthResults ==
    [u \in Users, n \in 1..MaxBatch, t \in GraphTimes, p \in GraphPositivity |->
        {generate_life_events_with_adk(
            [n |-> n, time_in_months |-> t, positivity |-> p, user_id |-> u],
            gen, outcomes, FixedRnd) :
                gen \in GraphGens, outcomes \in [1..n -> GraphJobOutcomes]}]

\* One add-node request.  The handler suspends once, at the await of the
\* generation (line 365), after it has only read the user's links for the
\* prompt; everything it writes is decided by the request and by the tables
\* as they are when it resumes, so the request is one step taken then.
\* adk.py line 743: the objects put into "node-images" by the image jobs of
\* one generation, the names the returned events carry
Uploaded(got) ==
    {got.events[i].image_name : i \in 1..Len(got.events)} \ {Empty}

AddNodeWith(u, clicked, n, failures, results) ==
    /\ \E t \in GraphTimes, p \in GraphPositivity, fail \in failures :
        \E got \in results[u, n, t, p] :
        LET r == [user |-> u, clicked |-> clicked, n |-> n, time |-> t, positivity |-> p]
            out == add_node(r, got, fail)
        IN /\ Cardinality(out.nodes) <= MaxNodes
           /\ Cardinality(out.links) <= MaxLinks
           /\ Completed(out, bucket \cup Uploaded(got))
    /\ UNCHANGED <<synth, batch, inflight, suspended, context, dfs, writer, adkVars>>

AddNode(u, clicked, n, failures) ==
    /\ AddNodeWith(u, clicked, n, failures, GraphSynthResults)
    /\ UNCHANGED instantiated

\* One instantiate request; the handler has no await.
InstantiateStep(u, failures) ==
    /\ \E fail \in failures :
        LET out == instantiate_user_node(u, fail)
        IN /\ Cardinality(out.nodes) <= MaxNodes
           /\ Completed(out, bucket)
    /\ UNCHANGED <<synth, batch, inflight, suspended, context, dfs, writer, adkVars>>

Instantiate(u, failures) ==
    /\ InstantiateStep(u, failures)
    /\ UNCHANGED instantiated

\* One delete-node request; the handler has no await.  rmFail are the images
\* whose remove_object raises.
DeleteNode(u, node_id, failures) ==
    /\ \E now_node \in NowChoices(UserNodeIds(nodes, u)), fail \in failures :
        \E rmFail \in SUBSET node_images_to_delete(nodes, u, UserNodeIds(nodes, u)) :
            LET out == delete_node(u, node_id, now_node, fail, rmFail)
            IN Completed(out, out.bucket)
    /\ UNCHANGED <<synth, batch, instantiated, inflight, suspended, context, dfs, writer, adkVars>>

\* requests that can be in flight at once, and the worker processes that
\* serve them; every process imports main.py and opens its own connection
\* (line 33)
MaxInflight == 3
Workers == 2

NoRequest == [pc |-> "none", user |-> Empty, proc |-> 0, existing_node |-> FALSE,
              resp |-> NoResp]

NotSuspended ==
    [pc |-> "none", user |-> Empty, clicked |-> Empty, n |-> 0, time |-> 0,
     highlight_path |-> << >>, current_links |-> {}, clickedStored |-> FALSE,
     cumulative_months |-> 0, gotOk |-> FALSE]

NoContext == [total_months |-> 0, aging |-> "", mortality |-> "", image_aging |-> ""]

SynthIdle ==
    [pc |-> "idle", req |-> [n |-> 0, time_in_months |-> 0, positivity |-> 0, user_id |-> Empty],
     gen |-> GenRaise, rnd |-> << >>, selected |-> << >>, results |-> << >>, done |-> {},
     order |-> << >>, events |-> << >>, raised |-> FALSE]

BatchIdle == [pc |-> "idle", names |-> << >>, ids |-> << >>]

-----------------------------------------------------------------------------
(* The reachability traversal of delete_node, one call and one loop turn at a
   time: lines 573-594 *)

MaxDfsLinks == 3    \* (source, target) pairs read for the user in one traversal
MaxDepth == 6       \* nested calls of dfs_from_now the interpreter allows

DfsIds == {NowIdOf(Str("u1")), Str("a"), Str("b")}

\* all_links is a list of (source, target) pairs in the order the rows were read
RECURSIVE LinkLists(_, _)
LinkLists(pairs, k) ==
    IF k = 0 THEN {<< >>}
    ELSE LET shorter == LinkLists(pairs, k - 1)
         IN shorter \cup {Append(l, p) : l \in {x \in shorter : Len(x) = k - 1},
                                         p \in pairs}

PairsOf(all_links) == {all_links[i] : i \in 1..Len(all_links)}

\* the link table holds one row per (source, target) of a user
DfsLinkLists ==
    {l \in LinkLists(DfsIds \X DfsIds, MaxDfsLinks) : Cardinality(PairsOf(l)) = Len(l)}

\* one activation of dfs_from_now: at = 0 before the test of line 577, otherwise
\* the index of the next pair of `for source, target in all_links`
Frame(current_node, at) == [current_node |-> current_node, at |-> at]

DfsIdle ==
    [pc |-> "idle", all_nodes |-> {}, node_id |-> Empty, now_node |-> Empty,
     all_links |-> << >>, reachable_nodes |-> {}, stack |-> << >>, added |-> << >>]

\* a test that stops at the removed node only
removed_only(current_node, reachable_nodes, node_id) ==
    current_node = node_id

\* line 577: if current_node in reachable_nodes or current_node == node_id: return
visited_or_removed(current_node, reachable_nodes, node_id) ==
    current_node \in reachable_nodes \/ current_node = node_id

\* line 583: if source == current_node and target != node_id
follows(pair, current_node, node_id) ==
    pair[1] = current_node /\ pair[2] # node_id

\* a return of the innermost call; the traversal is over when the call of line
\* 594 returns
Returned(d) ==
    LET rest == SubSeq(d.stack, 1, Len(d.stack) - 1)
    IN [d EXCEPT !.stack = rest, !.pc = IF rest = << >> THEN "done" ELSE "running"]

\* lines 574, 586-594: the set starts empty, the first node of all_nodes that
\* matches the pattern is the start, and without one dfs_from_now is not called
DfsStart(all_nodes, all_links, node_id, now_node) ==
    /\ dfs.pc = "idle"
    /\ dfs' = [pc |-> IF now_node = NoNode THEN "done" ELSE "running",
               all_nodes |-> all_nodes, node_id |-> node_id, now_node |-> now_node,
               all_links |-> all_links,
               reachable_nodes |-> {},
               stack |-> IF now_node = NoNode THEN << >> ELSE <<Frame(now_node, 0)>>,
               added |-> << >>]
    /\ UNCHANGED <<nodes, links, last, preNodes, preLinks, synth, batch, bucket, preBucket,
                   instantiated, inflight, suspended, context, writer, adkVars>>

\* lines 577-579: the test at the entry of a call, and the add when it fails
DfsEnter ==
    /\ dfs.pc = "running"
    /\ dfs.stack[Len(dfs.stack)].at = 0
    /\ LET top == dfs.stack[Len(dfs.stack)]
       IN dfs' = IF visited_or_removed(top.current_node, dfs.reachable_nodes, dfs.node_id)
                 THEN Returned(dfs)
                 ELSE [dfs EXCEPT !.reachable_nodes = @ \cup {top.current_node},
                                  !.added = Append(@, top.current_node),
                                  !.stack[Len(dfs.stack)].at = 1]
    /\ UNCHANGED <<nodes, links, last, preNodes, preLinks, synth, batch, bucket, preBucket,
                   instantiated, inflight, suspended, context, writer, adkVars>>

\* lines 582-584: one turn of the loop over all_links; a nested call beyond the
\* interpreter's limit raises RecursionError, which leaves every open call
DfsLoop ==
    /\ dfs.pc = "running"
    /\ dfs.stack[Len(dfs.stack)].at > 0
    /\ LET depth == Len(dfs.stack)
           top == dfs.stack[depth]
       IN dfs' = IF top.at > Len(dfs.all_links)
                 THEN Returned(dfs)
                 ELSE IF ~follows(dfs.all_links[top.at], top.current_node, dfs.node_id)
                 THEN [dfs EXCEPT !.stack[depth].at = @ + 1]
                 ELSE IF depth >= MaxDepth
                 THEN [dfs EXCEPT !.pc = "raised", !.stack = << >>]
                 ELSE [dfs EXCEPT !.stack = Append([@ EXCEPT ![depth].at = top.at + 1],
                                                   Frame(dfs.all_links[top.at][2], 0))]
    /\ UNCHANGED <<nodes, links, last, preNodes, preLinks, synth, batch, bucket, preBucket,
                   instantiated, inflight, suspended, context, writer, adkVars>>

\* delete_node has found node_id among the user's nodes (line 553) and node_id
\* is not a root id (line 540) when the traversal starts
NextDfs ==
    \/ \E all_nodes \in SUBSET DfsIds :
         \E node_id \in {n \in all_nodes : ~IsNowId(n)}, now_node \in NowChoices(all_nodes),
            all_links \in DfsLinkLists :
              DfsStart(all_nodes, all_links, node_id, now_node)
    \/ DfsEnter
    \/ DfsLoop


-----------------------------------------------------------------------------
(* The writes of add_node, statement by statement: lines 399-449 *)

\* one INSERT ... ON CONFLICT (id) DO NOTHING: into the node table for the
\* clicked node ("clicked") or a node of return_nodes ("new"), or into the link
\* table ("link")
Statement(role, row) == [role |-> role, row |-> row]

\* line 402: the copy of the clicked node that the request's previous_nodes
\* carries, when it carries one
PriorCopy(clicked, u) == NodeRow(clicked, u, Str("prior.png"), 2)

\* line 406: Node(id=request.clicked_node_id, ..., image_name="", timeInMonths=1)
Placeholder(clicked, u) == NodeRow(clicked, u, Empty, PlaceholderMonths)

\* line 402-406: the clicked node of previous_nodes, else the placeholder
clicked_node(r) ==
    IF r.inPrior THEN PriorCopy(r.clicked, r.user) ELSE Placeholder(r.clicked, r.user)

\* a handler that sends the link inserts before the node inserts
LinksBeforeNodes(first, node_inserts, link_inserts) ==
    first \o link_inserts \o node_inserts

\* lines 408-447 in the order of the code: the clicked node, the nodes of
\* return_nodes, the links
InCodeOrder(first, node_inserts, link_inserts) ==
    first \o node_inserts \o link_inserts

add_node_statements(r, ai_events) ==
    LET ids == AssignIds([i \in 1..Len(ai_events) |-> ai_events[i].name], << >>)
        given == r.clicked # Empty
        first == IF given THEN <<Statement("clicked", clicked_node(r))>> ELSE << >>
        node_inserts == [i \in 1..Len(ids) |->
                            Statement("new", NodeRow(ids[i], r.user, ai_events[i].image_name,
                                                     event_time_months(ai_events[i], r)))]
        link_inserts == IF given
                        THEN [i \in 1..Len(ids) |->
                                Statement("link", LinkRow(r.clicked, ids[i], r.user,
                                                          link_time(r, ai_events[i])))]
                        ELSE << >>
    IN InCodeOrder(first, node_inserts, link_inserts)

WriterIdle ==
    [pc |-> "idle", r |-> [user |-> Empty, clicked |-> Empty, inPrior |-> FALSE, time |-> 0],
     stmts |-> << >>, at |-> 1, committed |-> [nodes |-> {}, links |-> {}],
     sent |-> << >>]

WriteTimes == {6}
WriteEvents == SeqsOf({EventA}, 1, 2)

\* line 399: the events are back and return_nodes is built
WriteStart(u, clicked, inPrior, t, ai_events) ==
    /\ writer.pc # "writing"
    /\ LET r == [user |-> u, clicked |-> clicked, inPrior |-> inPrior, time |-> t]
       IN writer' = [pc |-> "writing", r |-> r,
                     stmts |-> add_node_statements(r, ai_events), at |-> 1,
                     committed |-> Tables(nodes, links), sent |-> << >>]
    /\ preNodes' = nodes
    /\ preLinks' = links
    /\ UNCHANGED <<nodes, links, last, synth, batch, bucket, preBucket,
                   instantiated, inflight, suspended, context, dfs, adkVars>>

\* One statement.  The insert of the clicked node is committed at once (line
\* 418); a link whose source or target is no stored node breaks the foreign
\* key, and the handler rolls back to that commit (lines 450-452); the commit
\* of line 449 follows the last statement.
WriteStep ==
    /\ writer.pc = "writing"
    /\ writer.at <= Len(writer.stmts)
    /\ LET st == writer.stmts[writer.at]
           isLast == writer.at = Len(writer.stmts)
           endsStored == st.role = "link" =>
                            {st.row.source, st.row.target} \subseteq NodeIds(nodes)
           nodes2 == IF st.role = "link" THEN nodes ELSE InsertIfAbsent(nodes, st.row)
           links2 == IF st.role = "link" THEN InsertIfAbsent(links, st.row) ELSE links
           sent == Append(writer.sent, [role |-> st.role, endsStored |-> endsStored])
       IN IF ~endsStored
          THEN /\ nodes' = writer.committed.nodes
               /\ links' = writer.committed.links
               /\ writer' = [writer EXCEPT !.pc = "raised", !.sent = sent]
          ELSE /\ nodes' = nodes2
               /\ links' = links2
               /\ writer' = [writer EXCEPT
                                !.pc = IF isLast THEN "done" ELSE "writing",
                                !.at = @ + 1, !.sent = sent,
                                !.committed = IF st.role = "clicked" \/ isLast
                                              THEN Tables(nodes2, links2) ELSE @]
    /\ UNCHANGED <<last, preNodes, preLinks, synth, batch, bucket, preBucket,
                   instantiated, inflight, suspended, context, dfs, adkVars>>

\* clicked_node_id of the request: none, the root, a stored node, or an id
\* that is not stored
WriteClicks(u) == {Empty, NowIdOf(u), AbsentId} \cup UserNodeIds(nodes, u)

-----------------------------------------------------------------------------
(* The interview sessions: adk.py lines 149-237 and 858-882, main.py lines
   113-197 *)

MaxQueues == 3      \* LiveRequestQueue objects created in one run
MaxStarts == 2      \* calls of start_agent_session that overlap
MaxCount == 9       \* message_count of a session

\* active_sessions.get(user_id) of a user without an entry
NoSession == [queue |-> 0, message_count |-> 0, has_initial |-> FALSE]

\* the tuple (queue, message_count, has_initial) of active_sessions
Session(q, message_count, has_initial) ==
    [queue |-> q, message_count |-> message_count, has_initial |-> has_initial]

\* a LiveRequestQueue of one user: whether close() was called on it and what
\* was put on it: initial interview prompts, greeting triggers, and messages
\* forwarded for the user
NewQueue(u) ==
    [user |-> u, closed |-> FALSE, initial |-> 0, greeting |-> 0, forwarded |-> 0]

\* marked: whether the user was in initial_message_sent when the call began
NoStart == [pc |-> "none", user |-> Empty, should_send_initial |-> FALSE, marked |-> FALSE]

NoReply ==
    [op |-> "none", user |-> Empty, status |-> 0, queue |-> 0, trigger |-> "",
     mime_type |-> "", message_count |-> 0, should_check_completeness |-> FALSE,
     marked_at_call |-> FALSE,
     active_before |-> [u \in Users |-> NoSession], sent_before |-> {},
     queues_before |-> << >>]

\* what a call found when it started
Before(r) ==
    [r EXCEPT !.active_before = active_sessions, !.sent_before = initial_message_sent,
              !.queues_before = queues]

FewMessages == 1    \* message_count reached while session starts overlap

MimeTypes == {"text/plain", "audio/pcm", "image/png"}

\* a handler that forwards whatever it is given
any_mime_type(mime_type, decodes) == TRUE

\* adk.py lines 866-875: text/plain and audio/pcm are forwarded, the latter
\* after base64.b64decode; every other mime type raises ValueError
supported(mime_type, decodes) ==
    \/ mime_type = "text/plain"
    \/ mime_type = "audio/pcm" /\ decodes

\* adk.py line 881: message_count >= 8 and message_count % 2 == 0
should_check_completeness(message_count) ==
    message_count >= 8 /\ message_count % 2 = 0

\* a handler that stores the count it read
count_as_read(message_count) == message_count

\* adk.py lines 869, 873: message_count += 1
count_after_send(message_count) == message_count + 1

\* adk.py lines 173-177: an existing session of the user is closed and removed
close_existing(u) ==
    IF active_sessions[u] = NoSession
    THEN [active |-> active_sessions, queues |-> queues]
    ELSE [active |-> [active_sessions EXCEPT ![u] = NoSession],
          queues |-> [queues EXCEPT ![active_sessions[u].queue].closed = TRUE]]

\* start_agent_session up to the await of get_or_create_session (adk.py lines
\* 211-213 and 173-181): whether the user is marked is read first, then an
\* existing session is closed and removed, then the call waits for
\* create_session
StartCall(c, u) ==
    /\ starts[c].pc = "none"
    /\ Len(queues) + Cardinality({d \in 1..MaxStarts : starts[d].pc = "creating"}) < MaxQueues
    /\ LET closed == close_existing(u)
       IN /\ active_sessions' = closed.active
          /\ queues' = closed.queues
    /\ starts' = [starts EXCEPT ![c] = [pc |-> "creating", user |-> u,
                                        should_send_initial |-> u \notin initial_message_sent,
                                        marked |-> u \in initial_message_sent]]
    /\ reply' = [Before(NoReply) EXCEPT !.op = "starting", !.user = u]
    /\ UNCHANGED <<initial_message_sent, prompts>>
    /\ UNCHANGED <<nodes, links, last, preNodes, preLinks, synth, batch, bucket, preBucket,
                   instantiated, inflight, suspended, context, dfs, writer>>

\* adk.py lines 216-235: the trigger a call puts on its queue.  The send of
\* line 221 is written one level out of the block of lines 217-229 whose
\* initial_content it sends; it is taken as a statement of that block.
trigger_of(should_send_initial) ==
    IF should_send_initial THEN "initial" ELSE "greeting"

\* start_agent_session from the end of the await to its return (adk.py lines
\* 182-203 and 216-237), no await in between: the new queue is registered with
\* count 0, the trigger is put on it, and for the initial prompt the user is
\* marked and the entry's flag is set
StartReturn(c) ==
    /\ starts[c].pc = "creating"
    /\ LET u == starts[c].user
           initial == starts[c].should_send_initial
           q == Len(queues) + 1
           trigger == trigger_of(initial)
       IN /\ queues' = Append(queues,
                         [NewQueue(u) EXCEPT
                            !.initial = IF trigger = "initial" THEN 1 ELSE 0,
                            !.greeting = IF trigger = "greeting" THEN 1 ELSE 0])
          /\ active_sessions' = [active_sessions EXCEPT ![u] = Session(q, 0, initial)]
          /\ initial_message_sent' =
                IF initial THEN initial_message_sent \cup {u} ELSE initial_message_sent
          /\ prompts' = [prompts EXCEPT ![u] = IF trigger = "initial" THEN @ + 1 ELSE @]
          /\ reply' = [Before(NoReply) EXCEPT !.op = "start", !.user = u, !.status = 200,
                                              !.queue = q, !.trigger = trigger,
                                              !.marked_at_call = starts[c].marked]
    /\ starts' = [starts EXCEPT ![c] = NoStart]
    /\ UNCHANGED <<nodes, links, last, preNodes, preLinks, synth, batch, bucket, preBucket,
                   instantiated, inflight, suspended, context, dfs, writer>>

\* send_message_to_agent behind POST /adk/send/{user_id} (adk.py lines 858-882,
\* main.py lines 147-162), which has no await after the body is read.  decodes
\* is whether base64.b64decode accepts the data; its error is a ValueError, and
\* main.py answers every ValueError with 404.
send_message_to_agent(u, mime_type, decodes) ==
    LET session_data == active_sessions[u]
        q == session_data.queue
        accepted == session_data # NoSession /\ supported(mime_type, decodes)
        message_count == count_after_send(session_data.message_count)
        r == [Before(NoReply) EXCEPT !.op = "send", !.user = u, !.mime_type = mime_type]
    IN IF ~accepted
       THEN [active |-> active_sessions, queues |-> queues,
             reply |-> [r EXCEPT !.status = 404]]
       ELSE [active |-> [active_sessions EXCEPT
                            ![u] = Session(q, message_count, session_data.has_initial)],
             queues |-> [queues EXCEPT ![q].forwarded = @ + 1],
             reply |-> [r EXCEPT !.status = 200, !.queue = q,
                                 !.message_count = message_count,
                                 !.should_check_completeness =
                                        should_check_completeness(message_count)]]

SendMessage(u, mime_type, decodes) ==
    /\ active_sessions[u].message_count < MaxCount
    /\ LET out == send_message_to_agent(u, mime_type, decodes)
       IN /\ active_sessions' = out.active
          /\ queues' = out.queues
          /\ reply' = out.reply
    /\ UNCHANGED <<initial_message_sent, starts, prompts>>
    /\ UNCHANGED <<nodes, links, last, preNodes, preLinks, synth, batch, bucket, preBucket,
                   instantiated, inflight, suspended, context, dfs, writer>>

\* send_followup_questions_to_interviewer (adk.py lines 149-167) for a user
\* with a session: one message on the queue, count + 1, flag set
Followup(u) ==
    /\ active_sessions[u] # NoSession
    /\ active_sessions[u].message_count < MaxCount
    /\ LET session_data == active_sessions[u]
       IN /\ queues' = [queues EXCEPT ![session_data.queue].forwarded = @ + 1]
          /\ active_sessions' = [active_sessions EXCEPT
                    ![u] = Session(session_data.queue, session_data.message_count + 1, TRUE)]
          /\ reply' = [Before(NoReply) EXCEPT !.op = "followup", !.user = u,
                                              !.queue = session_data.queue, !.status = 200]
    /\ UNCHANGED <<initial_message_sent, starts, prompts>>
    /\ UNCHANGED <<nodes, links, last, preNodes, preLinks, synth, batch, bucket, preBucket,
                   instantiated, inflight, suspended, context, dfs, writer>>

\* DELETE /adk/session/{user_id} (main.py lines 178-197): the session's queue
\* is closed and the entry removed, then the user's mark is removed
CleanupSession(u) ==
    /\ LET closed == close_existing(u)
       IN /\ active_sessions' = closed.active
          /\ queues' = closed.queues
    /\ initial_message_sent' = initial_message_sent \ {u}
    /\ prompts' = [prompts EXCEPT ![u] = 0]
    /\ reply' = [Before(NoReply) EXCEPT !.op = "cleanup", !.user = u, !.status = 200]
    /\ UNCHANGED starts
    /\ UNCHANGED <<nodes, links, last, preNodes, preLinks, synth, batch, bucket, preBucket,
                   instantiated, inflight, suspended, context, dfs, writer>>

\* the event stream of a user ends (main.py lines 125-133): the finally block
\* only logs, and the function cleanup of lines 119-123 is called nowhere
SseEnd(u) ==
    /\ \E q \in 1..Len(queues) : queues[q].user = u
    /\ reply' = [Before(NoReply) EXCEPT !.op = "sse_end", !.user = u, !.status = 200]
    /\ UNCHANGED <<active_sessions, initial_message_sent, queues, starts, prompts>>
    /\ UNCHANGED <<nodes, links, last, preNodes, preLinks, synth, batch, bucket, preBucket,
                   instantiated, inflight, suspended, context, dfs, writer>>

Init ==
    /\ nodes = {}
    /\ links = {}
    /\ last = NoResp
    /\ preNodes = {}
    /\ preLinks = {}
    /\ synth = SynthIdle
    /\ batch = BatchIdle
    /\ bucket = {}
    /\ preBucket = {}
    /\ instantiated = {}
    /\ inflight = [q \in 1..MaxInflight |-> NoRequest]
    /\ suspended = NotSuspended
    /\ context = NoContext
    /\ dfs = DfsIdle
    /\ writer = WriterIdle
    /\ active_sessions = [u \in Users |-> NoSession]
    /\ initial_message_sent = {}
    /\ queues = << >>
    /\ starts = [c \in 1..MaxStarts |-> NoStart]
    /\ reply = NoReply
    /\ prompts = [u \in Users |-> 0]

\* The requests of both users on a database that answers every statement.
Next ==
    \/ \E u \in Users : Instantiate(u, {FALSE})
    \/ \E u \in Users : \E clicked \in ClickChoices(u), n \in 1..MaxBatch :
            AddNode(u, clicked, n, {"none"})
    \/ \E u \in Users : \E node_id \in DeleteChoices(u) : DeleteNode(u, node_id, {"none"})

Spec == Init /\ [][Next]_vars

\* the user whose requests meet database errors
FailUsers == {Str("u1")}

\* The requests of one user on a database that may raise at any statement.
NextFail ==
    \/ \E u \in FailUsers : Instantiate(u, BOOLEAN)
    \/ \E u \in FailUsers : \E clicked \in ClickChoices(u), n \in 1..MaxBatch :
            AddNode(u, clicked, n, AddFailures)
    \/ \E u \in FailUsers : \E node_id \in DeleteChoices(u) :
            DeleteNode(u, node_id, DeleteFailures)

SpecFail == Init /\ [][NextFail]_vars

SoloUsers == {Str("u1")}

\* An instantiate that records the user as instantiated when it answers.
RootedInstantiate(u) ==
    /\ InstantiateStep(u, {FALSE})
    /\ instantiated' = IF last'.status = 200 THEN instantiated \cup {u} ELSE instantiated

\* The requests of one user whose first request is an instantiate.
NextRooted ==
    \/ \E u \in SoloUsers : RootedInstantiate(u)
    \/ \E u \in SoloUsers : \E clicked \in ClickChoices(u), n \in 1..MaxBatch :
            u \in instantiated /\ AddNode(u, clicked, n, {"none"})
    \/ \E u \in SoloUsers : \E node_id \in DeleteChoices(u) :
            u \in instantiated /\ DeleteNode(u, node_id, {"none"})

SpecRooted == Init /\ [][NextRooted]_vars

\* what the text generator and the image jobs do during a request on a store
\* with images
ImageGens == {GenText(<<LB, Elem(e), RB>>) : e \in {EventA, EventB}}
ImageJobOutcomes == {"ok", "noimage"}

ImageSynthResults ==
    [u \in Users, n \in 1..MaxBatch, t \in GraphTimes, p \in GraphPositivity |->
        {generate_life_events_with_adk(
            [n |-> n, time_in_months |-> t, positivity |-> p, user_id |-> u],
            gen, outcomes, FixedRnd) :
                gen \in ImageGens, outcomes \in [1..n -> ImageJobOutcomes]}]

\* The requests of one user whose events get images, on a database that may
\* raise during a delete and an object store that may raise at any removal.
NextImages ==
    \/ \E u \in SoloUsers : Instantiate(u, {FALSE})
    \/ \E u \in SoloUsers : \E clicked \in ClickChoices(u), n \in 1..MaxBatch :
            /\ AddNodeWith(u, clicked, n, {"none"}, ImageSynthResults)
            /\ UNCHANGED instantiated
    \/ \E u \in SoloUsers : \E node_id \in DeleteChoices(u) :
            DeleteNode(u, node_id, DeleteFailures)

SpecImages == Init /\ [][NextImages]_vars

\* A worker process accepts an instantiate request.
Arrive(q, u, w) ==
    /\ inflight[q].pc = "none"
    /\ inflight' = [inflight EXCEPT ![q] = [NoRequest EXCEPT !.pc = "arrived", !.user = u,
                                                              !.proc = w]]
    /\ UNCHANGED <<nodes, links, last, preNodes, preLinks, synth, batch, bucket, preBucket,
                   instantiated, suspended, context, dfs, writer, adkVars>>

\* The process runs the handler up to fetchone (lines 499-509).  The handler
\* has no await, so a process runs it to its end before it starts another.
Select(q) ==
    /\ inflight[q].pc = "arrived"
    /\ \A o \in 1..MaxInflight :
            inflight[o].proc = inflight[q].proc => inflight[o].pc # "selected"
    /\ inflight' = [inflight EXCEPT ![q].pc = "selected",
                                    ![q].existing_node =
                                        ExistingNowNode(nodes, inflight[q].user)]
    /\ UNCHANGED <<nodes, links, last, preNodes, preLinks, synth, batch, bucket, preBucket,
                   instantiated, suspended, context, dfs, writer, adkVars>>

\* The process runs the rest of the handler (lines 511-531).
Finish(q) ==
    /\ inflight[q].pc = "selected"
    /\ LET out == instantiate_after_select(inflight[q].user, inflight[q].existing_node)
       IN /\ Completed(out, bucket)
          /\ inflight' = [inflight EXCEPT ![q].pc = "done", ![q].resp = out.resp]
    /\ UNCHANGED <<synth, batch, instantiated, suspended, context, dfs, writer, adkVars>>

NextInflight ==
    \/ \E q \in 1..MaxInflight, u \in Users, w \in 1..Workers : Arrive(q, u, w)
    \/ \E q \in 1..MaxInflight : Select(q)
    \/ \E q \in 1..MaxInflight : Finish(q)

SpecInflight == Init /\ [][NextInflight]_vars

-----------------------------------------------------------------------------
(* add-node as two steps around its await, next to the other requests *)

\* the link of all_links that line 464-465 finds for a pair, none when absent
FoundLink(all_links, source_node, target_node) ==
    {l \in all_links : l.source = source_node /\ l.target = target_node}

\* adk.py lines 456-472: for every i the link with source = path[i + 1] and
\* target = path[i] is looked up, and its timeInMonths added when found
RECURSIVE calculate_cumulative_time(_, _)
calculate_cumulative_time(highlight_path, all_links) ==
    IF Len(highlight_path) < 2 THEN 0
    ELSE LET found == FoundLink(all_links, highlight_path[2], highlight_path[1])
             time_months == IF found = {} THEN 0
                            ELSE (CHOOSE l \in found : TRUE).timeInMonths
         IN time_months + calculate_cumulative_time(Tail(highlight_path), all_links)

Reverse(seq) == [i \in 1..Len(seq) |-> seq[Len(seq) + 1 - i]]

\* sequences of stored nodes in which every node is followed by the target of
\* one of its links
Chains(pairs, ids) ==
    {p \in SeqsOf(ids, 1, MaxNodes) :
        \A i \in 1..(Len(p) - 1) : <<p[i], p[i + 1]>> \in pairs}

\* previous_nodes and clicked_node_id of a request: no path and no clicked
\* id or a stored one, or a path along the stored links that ends (or, sent in the other
\* order, starts) at the clicked node
PathChoices(u) ==
    LET chains == Chains(LinkPairs(links, u), UserNodeIds(nodes, u))
    IN {[highlight_path |-> << >>, clicked |-> c] : c \in {Empty} \cup UserNodeIds(nodes, u)}
       \cup {[highlight_path |-> p, clicked |-> p[Len(p)]] : p \in chains}
       \cup {[highlight_path |-> Reverse(p), clicked |-> p[Len(p)]] : p \in chains}

AsyncTimes == {12}
AsyncGens ==
    {GenRaise, GenText(<<LB, Elem(EventA), RB>>), GenText(<<LB, Elem(EventNoType), RB>>)}

AsyncSynthResults ==
    [u \in Users, n \in 1..MaxBatch, t \in AsyncTimes, p \in GraphPositivity |->
        {generate_life_events_with_adk(
            [n |-> n, time_in_months |-> t, positivity |-> p, user_id |-> u],
            gen, outcomes, FixedRnd) :
                gen \in AsyncGens, outcomes \in [1..n -> GraphJobOutcomes]}]

\* main.py lines 347-365 and adk.py lines 273-281: the handler reads the
\* user's links, the synthesizer computes the cumulative time of the path,
\* and the handler is suspended at the await of the generation.
AddStart(u, choice, n, t) ==
    /\ suspended.pc # "suspended"
    /\ LET current_links == UserLinks(links, u)
           highlight_path == choice.highlight_path
       IN suspended' =
            [pc |-> "suspended", user |-> u, clicked |-> choice.clicked, n |-> n, time |-> t,
             highlight_path |-> highlight_path, current_links |-> current_links,
             clickedStored |-> choice.clicked \in UserNodeIds(nodes, u),
             cumulative_months |->
                IF highlight_path # << >> /\ current_links # {}
                THEN calculate_cumulative_time(highlight_path, current_links) ELSE 0,
             gotOk |-> FALSE]
    /\ UNCHANGED <<nodes, links, last, preNodes, preLinks, synth, batch, bucket, preBucket,
                   instantiated, inflight, context, dfs, writer, adkVars>>

\* main.py lines 365-457: the generation returns and the handler runs to its
\* end on the tables as they are now.
AddResume ==
    /\ suspended.pc = "suspended"
    /\ \E p \in GraphPositivity :
        \E got \in AsyncSynthResults[suspended.user, suspended.n, suspended.time, p] :
        LET r == [user |-> suspended.user, clicked |-> suspended.clicked, n |-> suspended.n,
                  time |-> suspended.time, positivity |-> p]
            out == add_node_finish(r, got, "none")
        IN /\ Cardinality(out.nodes) <= MaxNodes
           /\ Cardinality(out.links) <= MaxLinks
           /\ Completed(out, bucket \cup Uploaded(got))
           /\ suspended' = [NotSuspended EXCEPT
                                !.pc = "done",
                                !.user = suspended.user,
                                !.clicked = suspended.clicked,
                                !.clickedStored = suspended.clickedStored,
                                !.gotOk = /\ ~got.raised
                                          /\ \A i \in 1..Len(got.events) :
                                                RequiredKeys \subseteq got.events[i].has]
    /\ UNCHANGED <<synth, batch, instantiated, inflight, context, dfs, writer, adkVars>>

\* The requests of one user, with deletes and instantiates able to run while
\* an add-node is suspended.
NextAsync ==
    \/ \E u \in SoloUsers : Instantiate(u, {FALSE})
    \/ \E u \in SoloUsers : \E choice \in PathChoices(u), n \in 1..MaxBatch, t \in AsyncTimes :
            AddStart(u, choice, n, t)
    \/ AddResume
    \/ \E u \in SoloUsers : \E node_id \in UserNodeIds(nodes, u) :
            DeleteNode(u, node_id, {"none"})

SpecAsync == Init /\ [][NextAsync]_vars

-----------------------------------------------------------------------------
(* The aging and mortality descriptors: get_aging_context, get_mortality_context *)

MaxMonths == 650

\* a division that rounds up to whole years
YearsRoundedUp(total_months) == [num |-> (total_months + 11) \div 12, den |-> 1]

\* years = total_months / 12, a true division: the quotient as a fraction
Years(total_months) == [num |-> total_months, den |-> 12]

\* a comparison that lets the limit itself through
AtMost(years, limit) == years.num <= limit * years.den

\* years < limit
Less(years, limit) == years.num < limit * years.den

SameAge == "same age as in the reference image"
SlightlyOlder == "slightly older, subtle signs of maturity"
NoticeablyOlder == "noticeably older, clear signs of aging"
SignificantlyOlder == "significantly older, visible aging"
MuchOlder == "much older, considerable aging"
Elderly == "elderly, significant aging"

get_aging_context(total_months) ==
    LET years == Years(total_months)
    IN  IF Less(years, 2) THEN SameAge
        ELSE IF Less(years, 5) THEN SlightlyOlder
        ELSE IF Less(years, 10) THEN NoticeablyOlder
        ELSE IF Less(years, 20) THEN SignificantlyOlder
        ELSE IF Less(years, 30) THEN MuchOlder
        ELSE Elderly

HealthRelevant == "health and mortality may become relevant"
EndOfLife == "health challenges, retirement, or end-of-life"

get_mortality_context(total_months) ==
    LET years == Years(total_months)
    IN  IF Less(years, 30) THEN ""
        ELSE IF Less(years, 50) THEN HealthRelevant
        ELSE EndOfLife

\* One generation for a path whose cumulative time is m.  `given` is whether
\* highlight_path and all_links are both non-empty (line 278); the
\* synthesizer computes its descriptors only then, and hands its
\* cumulative_months to every image job (line 419), which computes the
\* descriptor again (line 593).
ContextCall(m, given) ==
    /\ LET cumulative_months == IF given THEN m ELSE 0
       IN context' = [total_months |-> cumulative_months,
                      aging |-> IF given THEN get_aging_context(cumulative_months) ELSE "",
                      mortality |-> IF given THEN get_mortality_context(cumulative_months)
                                    ELSE "",
                      image_aging |-> get_aging_context(cumulative_months)]
    /\ UNCHANGED <<nodes, links, last, preNodes, preLinks, synth, batch, bucket, preBucket,
                   instantiated, inflight, suspended, dfs, writer, adkVars>>

NextContext == \E m \in 0..MaxMonths, given \in BOOLEAN : ContextCall(m, given)

SpecContext == Init /\ [][NextContext]_vars

-----------------------------------------------------------------------------
(* One run of generate_life_events_with_adk, its image jobs running concurrently *)

SynthTokens == {LB, RB, JUNK, Elem(EventA), Elem(EventB), Elem(EventNoName)}

\* what the text generator does: it raises, or returns some text
SynthGens == {GenRaise} \cup {GenText(t) : t \in SeqsOf(SynthTokens, 0, MaxText)}

\* draws of random.randint that differ from event to event
VaryingRnd == [i \in 1..(MaxCands + 1) |-> [months |-> i, score |-> 100 - i]]

\* (time_in_months, positivity) of the request with the draws used for them:
\* both fixed by the request, or both random
SynthRequests ==
    {[time_in_months |-> 6, positivity |-> 50, rnd |-> FixedRnd],
     [time_in_months |-> 0, positivity |-> 0 - 1, rnd |-> FixedRnd],
     [time_in_months |-> 0, positivity |-> 0 - 1, rnd |-> VaryingRnd]}

Pending == [raised |-> FALSE, image_name |-> <<"<pending>">>, image_url |-> <<"<pending>">>]

\* lines 283-421: the call up to asyncio.gather, or up to its return when no
\* image job is started
SynthCall ==
    /\ synth.pc = "idle"
    /\ \E n \in 1..MaxCands, q \in SynthRequests, gen \in SynthGens :
       LET req == [n |-> n, time_in_months |-> q.time_in_months,
                   positivity |-> q.positivity, user_id |-> Str("u1")]
           path == SynthPath(req, gen)
           started == [SynthIdle EXCEPT !.req = req, !.gen = gen, !.rnd = q.rnd]
       IN synth' =
            IF path = "images"
            THEN [started EXCEPT !.pc = "jobs", !.selected = SelectedEvents(req, gen),
                                 !.results = [i \in 1..n |-> Pending]]
            ELSE IF path = "fallback"
            THEN [started EXCEPT !.pc = "done", !.events = Fallback(req, q.rnd)]
            ELSE [started EXCEPT !.pc = "done", !.raised = TRUE]
    /\ UNCHANGED <<nodes, links, last, preNodes, preLinks, batch, bucket, preBucket, instantiated, inflight, suspended, context, dfs, writer, adkVars>>

\* one image job runs to its end; the jobs end in any order
JobDone(i, outcome) ==
    /\ synth.pc = "jobs"
    /\ i \in (1..synth.req.n) \ synth.done
    /\ synth' = [synth EXCEPT
                    !.results[i] = generate_event_image(synth.req.user_id,
                                                        synth.selected[i].name, outcome),
                    !.done = @ \cup {i},
                    !.order = Append(@, i)]
    /\ UNCHANGED <<nodes, links, last, preNodes, preLinks, batch, bucket, preBucket, instantiated, inflight, suspended, context, dfs, writer, adkVars>>

\* lines 425-438: gather returns when every job has ended, the results are
\* written into the events and the events are returned
SynthJoin ==
    /\ synth.pc = "jobs"
    /\ synth.done = 1..synth.req.n
    /\ synth' = [synth EXCEPT !.pc = "done",
                              !.events = DecorateAll(synth.selected, synth.results, synth.order)]
    /\ UNCHANGED <<nodes, links, last, preNodes, preLinks, batch, bucket, preBucket, instantiated, inflight, suspended, context, dfs, writer, adkVars>>

NextSynth ==
    \/ SynthCall
    \/ \E i \in 1..MaxCands, outcome \in JobOutcomes : JobDone(i, outcome)
    \/ SynthJoin

SpecSynth == Init /\ [][NextSynth]_vars

-----------------------------------------------------------------------------
(* One run of the id-assignment loop of add-node *)

\* names of candidates: plain, already carrying a suffix, longer than three words
NamePool ==
    {<<"a">>, <<"a", SP, "1">>, <<"a", SP, "2">>,
     <<"a", SP, "b", SP, "c">>, <<"a", SP, "b", SP, "c", SP, "d">>}

BatchStart ==
    /\ batch.pc = "idle"
    /\ \E names \in SeqsOf(NamePool, 1, MaxCands) :
        batch' = [pc |-> "run", names |-> names, ids |-> << >>]
    /\ UNCHANGED <<nodes, links, last, preNodes, preLinks, synth, bucket, preBucket, instantiated, inflight, suspended, context, dfs, writer, adkVars>>

\* one iteration of `for i, ai_content in enumerate(ai_events)`
BatchStep ==
    /\ batch.pc = "run"
    /\ LET ids == Append(batch.ids, NextId(batch.names[Len(batch.ids) + 1], batch.ids))
       IN batch' = [batch EXCEPT !.ids = ids,
                                 !.pc = IF Len(ids) = Len(batch.names) THEN "done" ELSE "run"]
    /\ UNCHANGED <<nodes, links, last, preNodes, preLinks, synth, bucket, preBucket, instantiated, inflight, suspended, context, dfs, writer, adkVars>>

NextIds ==
    \/ BatchStart
    \/ BatchStep

SpecIds == Init /\ [][NextIds]_vars

\* One traversal, over any list of at most MaxDfsLinks pairs.
SpecDfs == Init /\ [][NextDfs]_vars

\* every call and every loop turn that can run does run
SpecDfsLive == SpecDfs /\ WF_vars(DfsEnter) /\ WF_vars(DfsLoop)

\* One user's add-node requests written statement by statement, on a store
\* that may hold the user's root.
NextWrites ==
    \E u \in SoloUsers :
        \/ writer.pc # "writing" /\ Instantiate(u, {FALSE})
        \/ \E clicked \in WriteClicks(u), inPrior \in BOOLEAN, t \in WriteTimes,
              ai_events \in WriteEvents :
                /\ Cardinality(NodeIds(nodes) \cup {clicked}) + Len(ai_events) <= MaxNodes + 2
                /\ WriteStart(u, clicked, inPrior, t, ai_events)
        \/ WriteStep

SpecWrites == Init /\ [][NextWrites]_vars

\* what the text generator and the image jobs do when the events of one
\* request share a name and every image job uploads its image
MaxSame == 2        \* num_nodes of a request whose events share a name
SameNameGens == {GenText(<<LB>> \o es \o <<RB>>) : es \in SeqsOf({Elem(EventA)}, 1, MaxSame)}

SameNameResults ==
    [u \in Users, n \in 1..MaxSame, t \in GraphTimes, p \in GraphPositivity |->
        {generate_life_events_with_adk(
            [n |-> n, time_in_months |-> t, positivity |-> p, user_id |-> u],
            gen, outcomes, FixedRnd) :
                gen \in SameNameGens, outcomes \in [1..n -> ImageJobOutcomes]}]

\* The requests of one user whose events all carry the same name.
NextSameName ==
    \/ \E u \in SoloUsers : Instantiate(u, {FALSE})
    \/ \E u \in SoloUsers : \E clicked \in ClickChoices(u), n \in 1..MaxSame :
            /\ AddNodeWith(u, clicked, n, {"none"}, SameNameResults)
            /\ UNCHANGED instantiated
    \/ \E u \in SoloUsers : \E node_id \in DeleteChoices(u) :
            DeleteNode(u, node_id, {"none"})

SpecSameName == Init /\ [][NextSameName]_vars

\* The session calls of two users; starts of sessions overlap at their await.
NextSessions ==
    \E u \in Users :
        \/ \E c \in 1..MaxStarts : StartCall(c, u)
        \/ \E c \in 1..MaxStarts : starts[c].user = u /\ StartReturn(c)
        \/ \E mime_type \in MimeTypes, decodes \in BOOLEAN :
              /\ active_sessions[u].message_count < FewMessages
              /\ SendMessage(u, mime_type, decodes)
        \/ CleanupSession(u)
        \/ SseEnd(u)

SpecSessions == Init /\ [][NextSessions]_vars

\* The messages of two users whose session starts do not overlap.
NextMessages ==
    \E u \in Users :
        \/ (\A c \in 1..MaxStarts : starts[c].pc = "none")
              /\ active_sessions[u] = NoSession /\ StartCall(1, u)
        \/ starts[1].user = u /\ StartReturn(1)
        \/ \E mime_type \in MimeTypes, decodes \in BOOLEAN :
              starts[1].pc = "none" /\ SendMessage(u, mime_type, decodes)
        \/ starts[1].pc = "none" /\ Followup(u)

SpecMessages == Init /\ [][NextMessages]_vars

-----------------------------------------------------------------------------
(* Properties of delete-node on the stored graph *)

\* the nodes a walk along `pairs` in the source->target direction reaches from S
RECURSIVE ReachFrom(_, _)
ReachFrom(S, pairs) ==
    LET T == S \cup {p[2] : p \in {q \in pairs : q[1] \in S}}
    IN IF T = S THEN S ELSE ReachFrom(T, pairs)

DeleteAccepted == last.op = "delete" /\ last.status = 200

DeleteRejected == last.op = "delete" /\ last.status >= 400

StoreUnchanged == nodes = preNodes /\ links = preLinks

\* C1: after an accepted delete-node of t the user's remaining nodes are exactly
\* the nodes reachable from the user's root over the user's remaining links,
\* and t is not among them.
C1_RemainingIsReachable ==
    DeleteAccepted =>
        LET remaining == UserNodeIds(nodes, last.user)
            roots == {id \in remaining : IsNowId(id)}
        IN /\ last.node \notin remaining
           /\ roots # {} =>
                \E root \in roots : remaining = ReachFrom({root}, LinkPairs(links, last.user))

\* C2: the cascade set of an accepted delete-node holds no node with a root id,
\* every root the user had before the request is still stored after it, and
\* every node of the user that no root reaches once the target is removed is
\* in the cascade set.
C2_CascadeSparesRoots ==
    DeleteAccepted =>
        LET before == UserNodeIds(preNodes, last.user)
            roots == {id \in before : IsNowId(id)}
            pairs == {p \in LinkPairs(preLinks, last.user) :
                          p[1] # last.node /\ p[2] # last.node}
            stranded == (before \ ReachFrom(roots, pairs)) \ {last.node}
        IN /\ \A id \in last.cascade : ~IsNowId(id)
           /\ roots \subseteq UserNodeIds(nodes, last.user)
           /\ stranded \subseteq last.cascade

\* C3: a delete-node whose node id is "Now" or starts with "Now-" is rejected
\* before any statement is sent to the database, and no row of any user changes.
C3_RootDeleteRejected ==
    (last.op = "delete" /\ IsNowId(last.node)) =>
        /\ DeleteRejected
        /\ last.stmts = 0
        /\ StoreUnchanged

\* a root delete was asked for by a user whose root is stored and has a child
C3_Witness ==
    /\ last.op = "delete"
    /\ IsNowId(last.node)
    /\ \E r \in nodes : r.id = last.node /\ r.userId = last.user
    /\ \E l \in links : l.source = last.node /\ l.userId = last.user

\* C4: a delete-node rejected because the target is the root answers 400, one
\* rejected because the target is not stored for the user answers 404; neither
\* answers with a 5xx status.
C4_ValidationIsClientError ==
    /\ (last.op = "delete" /\ IsNowId(last.node)) => last.status = 400
    /\ (last.op = "delete" /\ ~IsNowId(last.node)
            /\ ~\E r \in preNodes : r.id = last.node /\ r.userId = last.user)
       => last.status = 404

\* C5: a delete-node of an id that is not stored for the requesting user, absent
\* or stored for another user only, is rejected and no row of any user changes.
C5_MissingDeleteRejected ==
    (last.op = "delete" /\ ~IsNowId(last.node)
        /\ ~\E r \in preNodes : r.id = last.node /\ r.userId = last.user)
    => (DeleteRejected /\ StoreUnchanged)

\* the id asked for is stored, but for another user
C5_Witness ==
    /\ last.op = "delete"
    /\ ~IsNowId(last.node)
    /\ \E r \in preNodes : r.id = last.node /\ r.userId # last.user
    /\ ~\E r \in preNodes : r.id = last.node /\ r.userId = last.user
    /\ DeleteRejected

\* C12: an accepted delete-node removes the user's links with an endpoint in
\* the target or the cascade set, and no other link: every other link of the
\* user, and every link of another user, is stored as it was.
C12_DeleteRemovesIncidentLinks ==
    DeleteAccepted =>
        LET deleted == {last.node} \cup last.cascade
            incident == {l \in preLinks : l.userId = last.user
                            /\ (l.source \in deleted \/ l.target \in deleted)}
        IN links = preLinks \ incident

\* a delete removed a link of the user and left another link of the user
C12_Witness ==
    /\ DeleteAccepted
    /\ \E l \in preLinks : l.userId = last.user /\ l \notin links
    /\ \E l \in links : l.userId = last.user

\* C19: the report of an accepted delete-node agrees with the store: the
\* cascade set is what the user lost besides the target, the target is not in
\* it, total_deleted is one more than its size, and remaining_nodes is the
\* number of nodes the user has after the request.
C19_DeleteReportMatchesStore ==
    DeleteAccepted =>
        LET before == UserNodeIds(preNodes, last.user)
            after == UserNodeIds(nodes, last.user)
        IN /\ last.node \in before
           /\ last.node \notin last.cascade
           /\ last.cascade = (before \ after) \ {last.node}
           /\ last.total = 1 + Cardinality(last.cascade)
           /\ last.remaining = Cardinality(after)

\* a delete with a cascade that left the user some nodes
C19_Witness ==
    /\ DeleteAccepted
    /\ last.cascade # {}
    /\ last.remaining > 0

-----------------------------------------------------------------------------
(* Properties of the stored graph *)

\* C11: the source and the target of every stored link are ids of nodes
\* stored for the user the link is stored for.
C11_LinkEndsBelongToOwner ==
    \A l \in links :
        /\ l.source \in UserNodeIds(nodes, l.userId)
        /\ l.target \in UserNodeIds(nodes, l.userId)

-----------------------------------------------------------------------------
(* Properties of add-node on the stored graph *)

\* C7: when no statement of the database fails, add-node for n nodes answers
\* successfully with exactly n nodes, whatever the generators did.
C7_AddSucceedsWithoutDbError ==
    (last.op = "add" /\ ~last.dbError) => (last.status = 200 /\ Len(last.ids) = last.n)

\* C10: an insert of a node or link whose id is already stored raises no error,
\* leaves one row with that id, and leaves the stored row as it was.
C10_InsertExistingIsNoOp ==
    /\ last.op = "add" => ~last.dbError
    /\ (last.op = "add" /\ last.status = 200) =>
            (preNodes \subseteq nodes /\ preLinks \subseteq links)
    /\ \A r1, r2 \in nodes : r1.id = r2.id => r1 = r2
    /\ \A l1, l2 \in links : l1.id = l2.id => l1 = l2

\* an add-node succeeded although one of its ids was stored, for another user
C10_Witness ==
    /\ last.op = "add"
    /\ last.status = 200
    /\ last.conflicts > 0
    /\ \E i \in 1..Len(last.ids) :
          \E r \in preNodes : r.id = last.ids[i] /\ r.userId # last.user

-----------------------------------------------------------------------------
(* Properties of the event synthesizer *)

SynthReturned == synth.pc = "done"

\* the run went through the image jobs
SynthJoined == synth.pc = "done" /\ synth.order # << >>

\* C6: whatever the text generator does, generate_life_events_with_adk returns
\* a list of exactly n events and no exception leaves it.
C6_SynthesizerIsTotal ==
    SynthReturned => (~synth.raised /\ Len(synth.events) = synth.req.n)

\* the call to the text generator raised, and MaxCands events were asked for
C6_Witness ==
    /\ SynthReturned
    /\ synth.gen.kind = "raise"
    /\ synth.req.n = MaxCands
    /\ Len(synth.events) = MaxCands

\* C8: when the image jobs of a batch have run, every job has ended, the batch
\* returns its n events, an event whose job raised or found no image has empty
\* image fields, and every other event carries the result of the job with its
\* own index, in whatever order the jobs ended.
C8_ImageJobsIsolated ==
    SynthJoined =>
        /\ ~synth.raised
        /\ Len(synth.events) = synth.req.n
        /\ synth.done = 1..synth.req.n
        /\ \A i \in 1..synth.req.n :
            LET res == synth.results[i]
                ev == synth.events[i]
            IN /\ ev.name = synth.selected[i].name
               /\ res.raised => (ev.image_name = Empty /\ ev.image_url = Empty)
               /\ ~res.raised => (ev.image_name = res.image_name /\ ev.image_url = res.image_url)
               /\ ev.image_name # Empty =>
                      ev.image_name = ImageFilename(ev.name, synth.req.user_id, ".png")

\* the second job ended first with an image, the first job raised, and the two
\* events have different names
C8_Witness ==
    /\ SynthJoined
    /\ synth.req.n = 2
    /\ synth.order = <<2, 1>>
    /\ synth.results[1].raised
    /\ synth.results[2].image_url # Empty
    /\ synth.selected[1].name # synth.selected[2].name
    /\ synth.events[2].image_url # Empty

-----------------------------------------------------------------------------
(* Properties of the node ids of one batch *)

\* f"{base_id} {k}"
Suffixed(base_id, k) == base_id \o <<SP>> \o IntToStr(k)

EarlierIds(i) == {batch.ids[j] : j \in 1..(i - 1)}

\* C9: the ids assigned to a batch are pairwise distinct, and each is fixed by
\* the candidates before it: the base id when no earlier candidate was given
\* it, otherwise the base id with the least suffix k >= 1 that gives an id no
\* earlier candidate was given.
C9_IdsDistinctLeastSuffix ==
    /\ \A i, j \in 1..Len(batch.ids) : i # j => batch.ids[i] # batch.ids[j]
    /\ \A i \in 1..Len(batch.ids) :
        LET base_id == ReadableId(batch.names[i])
        IN IF base_id \notin EarlierIds(i)
           THEN batch.ids[i] = base_id
           ELSE \E k \in 1..Len(batch.names) :
                    /\ batch.ids[i] = Suffixed(base_id, k)
                    /\ batch.ids[i] \notin EarlierIds(i)
                    /\ \A m \in 1..(k - 1) : Suffixed(base_id, m) \in EarlierIds(i)

\* a candidate's name is the suffixed id an earlier candidate was given
C9_Witness ==
    /\ batch.pc = "done"
    /\ \E i, j \in 1..Len(batch.ids) :
        /\ i < j
        /\ batch.ids[i] # ReadableId(batch.names[i])
        /\ ReadableId(batch.names[j]) = batch.ids[i]
        /\ batch.ids[j] # batch.ids[i]

\* C9 as stated: the first candidate with a base id keeps it, and the later
\* candidates with that base id get " 1", " 2", ... in candidate order.
C9_SuffixByOccurrence ==
    \A i \in 1..Len(batch.ids) :
        LET base_id == ReadableId(batch.names[i])
            occurrences == Cardinality({j \in 1..(i - 1) : ReadableId(batch.names[j]) = base_id})
        IN batch.ids[i] = IF occurrences = 0 THEN base_id ELSE Suffixed(base_id, occurrences)

-----------------------------------------------------------------------------
(* Properties of the handlers on a database that raises *)

\* C13: a delete-node that meets a database error at any of its statements
\* leaves the stored nodes and links as they were, and a delete-node that
\* changes the store has made all of its deletions.
C13_DeleteAllOrNothing ==
    /\ (last.op = "delete" /\ last.dbError) => (last.status >= 500 /\ StoreUnchanged)
    /\ (last.op = "delete" /\ ~StoreUnchanged) =>
            LET deleted == {last.node} \cup last.cascade
            IN /\ DeleteAccepted
               /\ nodes = {r \in preNodes : ~(r.userId = last.user /\ r.id \in deleted)}
               /\ \A l \in links :
                    l.userId = last.user => (l.source \notin deleted /\ l.target \notin deleted)

\* the database raised during the delete of a stored node that has a link
C13_Witness ==
    /\ last.op = "delete"
    /\ last.dbError
    /\ \E r \in nodes : r.id = last.node /\ r.userId = last.user
    /\ \E l \in links : l.userId = last.user /\ l.target = last.node

\* C14: an add-node that meets a database error while it inserts its nodes and
\* links leaves nothing it wrote in the store, the clicked-node placeholder
\* included, and answers with an error.
C14_AddAllOrNothing ==
    (last.op = "add" /\ last.dbError) => (last.status >= 500 /\ StoreUnchanged)

-----------------------------------------------------------------------------
(* Properties of instantiate *)

\* the user has a stored node whose id is "Now" or "Now-{userId}"
HasRoot(tbl, u) == \E r \in tbl : r.userId = u /\ (r.id = <<"Now">> \/ r.id = NowIdOf(u))

\* C16: an instantiate that answers inserts a root exactly when the user had
\* none and reports created accordingly, changes nothing when it reports
\* created = false, and reports as node_id the id of a root the user has in
\* the store.
C16_InstantiateReportsStoredRoot ==
    (last.op = "instantiate" /\ last.status = 200) =>
        /\ last.created <=> ~HasRoot(preNodes, last.user)
        /\ last.created => (Cardinality(nodes) = Cardinality(preNodes) + 1 /\ links = preLinks)
        /\ ~last.created => StoreUnchanged
        /\ HasRoot(nodes, last.user)
        /\ \E r \in nodes : r.userId = last.user /\ r.id = last.node

-----------------------------------------------------------------------------
(* Properties of the image job *)

\* C20: a job of generate_event_image that has returned has returned a pair
\* (image name, image url) whose components are both empty or both non-empty,
\* whatever step of the job failed.
C20_ImagePairBothOrNeither ==
    \A i \in synth.done :
        LET res == synth.results[i]
        IN ~res.raised => (res.image_name = Empty <=> res.image_url = Empty)

\* the user's stored nodes whose id is "Now" or "Now-{userId}"
RootsOf(tbl, u) == {r \in tbl : r.userId = u /\ (r.id = <<"Now">> \/ r.id = NowIdOf(u))}

\* C15: a user whose requests began with an instantiate has, after every
\* later instantiate, add-node and delete-node, exactly one node whose id is
\* "Now" or "Now-{userId}", and that node has timeInMonths = 0.
C15_ExactlyOneRoot ==
    \A u \in instantiated :
        /\ Cardinality(RootsOf(nodes, u)) = 1
        /\ \A r \in RootsOf(nodes, u) : r.timeInMonths = 0

-----------------------------------------------------------------------------
(* Properties of the image cleanup of delete-node *)

\* C18: a delete-node that does not commit (rejected, or failed and rolled
\* back) leaves the object store as it was and reports no deleted image; a
\* delete-node that commits answers 200 whatever removals raise, keeps its
\* rows deleted, collects the images of the rows it deleted, removes from the
\* object store every collected image whose removal did not raise, and reports
\* exactly those as deleted_images.
C18_ImageCleanupAfterCommit ==
    last.op = "delete" =>
        /\ last.status # 200 =>
                /\ StoreUnchanged
                /\ bucket = preBucket
                /\ last.deleted_images = {}
        /\ last.status = 200 =>
                LET deleted == {last.node} \cup last.cascade
                    gone == {r \in preNodes : r.userId = last.user /\ r.id \in deleted}
                IN /\ nodes = preNodes \ gone
                   /\ last.images = {r.imageName : r \in gone} \ {Empty}
                   /\ last.remove_raised \subseteq last.images
                   /\ last.deleted_images = last.images \ last.remove_raised
                   /\ bucket = preBucket \ last.deleted_images

\* a committed delete of two nodes with images, the removal of one image
\* raised and the other image was removed from the object store
C18_Witness ==
    /\ last.op = "delete"
    /\ last.status = 200
    /\ Cardinality(last.images) = 2
    /\ Cardinality(last.remove_raised) = 1
    /\ Cardinality(last.deleted_images) = 1
    /\ last.images \subseteq preBucket
    /\ bucket # preBucket
    /\ bucket \cap last.images = last.remove_raised

-----------------------------------------------------------------------------
(* Properties of instantiate requests in flight together *)

-----------------------------------------------------------------------------
(* Properties of what add-node returns and stores *)

\* C21: every node in the list a successful add-node returns was created by
\* that request: its id was in no stored row before, and it is now stored for
\* the requesting user.
C21_ReturnedNodesAreNew ==
    (last.op = "add" /\ last.status = 200) =>
        \A i \in 1..Len(last.ids) :
            /\ last.ids[i] \notin NodeIds(preNodes)
            /\ \E r \in nodes : r.id = last.ids[i] /\ r.userId = last.user

-----------------------------------------------------------------------------
(* Properties of the aging and mortality descriptors *)

\* C28: the aging descriptor of m elapsed months is the one of the band m
\* lies in (below 24, 60, 120, 240, 360, or from 360 on), 36 months give the
\* "slightly older" descriptor, and the descriptor the synthesizer puts in its
\* prompt is the one the image job computes.
C28_AgingBands ==
    context # NoContext =>
    LET m == context.total_months
        d == context.image_aging
    IN /\ (m < 24) <=> (d = SameAge)
       /\ (24 <= m /\ m < 60) <=> (d = SlightlyOlder)
       /\ (60 <= m /\ m < 120) <=> (d = NoticeablyOlder)
       /\ (120 <= m /\ m < 240) <=> (d = SignificantlyOlder)
       /\ (240 <= m /\ m < 360) <=> (d = MuchOlder)
       /\ (m >= 360) <=> (d = Elderly)
       /\ m = 36 => d = SlightlyOlder
       /\ context.aging # "" => context.aging = d

\* the descriptors of a path of exactly 24 months have been computed, by the
\* synthesizer and by the image job
C28_Witness ==
    /\ context.total_months = 24
    /\ context.aging = SlightlyOlder
    /\ context.image_aging = SlightlyOlder

\* C29: the mortality descriptor of m elapsed months is empty when m < 360,
\* the health descriptor when 360 <= m < 600, and the end-of-life descriptor
\* when m >= 600.
C29_MortalityBands ==
    context # NoContext =>
    LET m == context.total_months
        d == context.mortality
    IN /\ (m < 360) <=> (d = "")
       /\ (360 <= m /\ m < 600) <=> (d = HealthRelevant)
       /\ (m >= 600) <=> (d = EndOfLife)

\* the mortality descriptor of a path of exactly 600 months has been computed
C29_Witness ==
    /\ context.total_months = 600
    /\ context.mortality = EndOfLife

-----------------------------------------------------------------------------
(* Properties of the synthesizer's selection and defaults *)

\* the parsed array of the generator's text, when the text holds a well-formed
\* array whose elements all are objects with a name and a description
UsableArray(gen) ==
    LET x == ExtractEvents(gen.text)
    IN IF /\ gen.kind = "text"
          /\ x.found
          /\ x.ok
          /\ \A i \in 1..Len(x.events) :
                x.events[i].isDict /\ {"name", "description"} \subseteq x.events[i].has
       THEN [usable |-> TRUE, events |-> x.events]
       ELSE [usable |-> FALSE, events |-> << >>]

IsPlaceholder(event) == event.type = "fallback"

\* the first n elements of a long enough array are returned in array order
FirstNReturned ==
    LET got == UsableArray(synth.gen).events
        n == synth.req.n
    IN Len(got) >= n =>
            /\ Len(synth.events) = n
            /\ \A i \in 1..n : synth.events[i].name = got[i].name /\ ~IsPlaceholder(synth.events[i])

\* C26: when the generator's array has k usable elements with 0 < k < n, the
\* result has n events of which the first k are the generated ones and the
\* other n - k are placeholders; when it has at least n, the result is its
\* first n elements in order.
C26_ShortArrayIsTopped ==
    (SynthReturned /\ UsableArray(synth.gen).usable) =>
        LET got == UsableArray(synth.gen).events
            k == Len(got)
            n == synth.req.n
        IN /\ FirstNReturned
           /\ (0 < k /\ k < n) =>
                /\ Len(synth.events) = n
                /\ \A i \in 1..k : synth.events[i].name = got[i].name
                /\ \A i \in (k + 1)..n : IsPlaceholder(synth.events[i])

\* the run returned the fallback list
SynthFellBack ==
    /\ SynthReturned
    /\ ~synth.raised
    /\ synth.order = << >>
    /\ Len(synth.events) = synth.req.n

\* C27: on the fallback path the i-th placeholder has the time and positivity
\* of the i-th configuration made before the generator call: the request's
\* time when positive, else the i-th draw from 1..24; the request's positivity
\* when non-negative, else the i-th draw from 0..100.
C27_FallbackCarriesConfig ==
    SynthFellBack =>
        \A i \in 1..synth.req.n :
            LET ev == synth.events[i]
            IN /\ IsPlaceholder(ev)
               /\ ev.time_months = IF synth.req.time_in_months > 0
                                   THEN synth.req.time_in_months
                                   ELSE synth.rnd[i].months
               /\ synth.req.time_in_months <= 0 => ev.time_months \in 1..24
               /\ ev.positivity_score = IF synth.req.positivity >= 0
                                        THEN synth.req.positivity
                                        ELSE synth.rnd[i].score
               /\ synth.req.positivity < 0 => ev.positivity_score \in 0..100

\* a fallback of three events whose times and positivities were drawn per
\* event and differ from event to event
C27_Witness ==
    /\ SynthFellBack
    /\ synth.req.n = 3
    /\ synth.req.time_in_months <= 0
    /\ synth.req.positivity < 0
    /\ synth.events[1].time_months # synth.events[2].time_months
    /\ synth.events[2].positivity_score # synth.events[3].positivity_score

\* C25: an add-node whose generated events all have a name and a description
\* but lack type, time_months or positivity_score does not fail: it answers
\* 200 and stores a node for every returned id.
C25_MissingOptionalKeysDefaulted ==
    (/\ last.op = "add"
     /\ ~last.dbError
     /\ last.missing # {}
     /\ last.missing \subseteq {"type", "time_months", "positivity_score"}) =>
        /\ last.status = 200
        /\ \A i \in 1..Len(last.ids) : last.ids[i] \in NodeIds(nodes)

-----------------------------------------------------------------------------
(* Properties of the shape of the stored graph *)

\* C30: the links stored for a user have no self-loop and no directed cycle:
\* no link's source can be reached from its target.
C30_LinksAcyclic ==
    \A u \in Users :
        LET pairs == LinkPairs(links, u)
        IN \A p \in pairs : p[1] \notin ReachFrom({p[2]}, pairs)

-----------------------------------------------------------------------------
(* Properties of add-node around its await *)

\* the path follows stored links from each node to the next
IsForwardPath(path, all_links) ==
    \A i \in 1..(Len(path) - 1) :
        \E l \in all_links : l.source = path[i] /\ l.target = path[i + 1]

\* the sum of timeInMonths over the links from each node of the path to the next
RECURSIVE ForwardPathMonths(_, _)
ForwardPathMonths(path, all_links) ==
    IF Len(path) < 2 THEN 0
    ELSE (CHOOSE l \in all_links : l.source = path[1] /\ l.target = path[2]).timeInMonths
         + ForwardPathMonths(Tail(path), all_links)

\* C23: for a highlighted path that starts at the root and follows, node by
\* node, the links add-node stored from each clicked node to the node generated
\* from it, the cumulative months computed at the start of add-node are the
\* sum of those links' timeInMonths.
C23_CumulativeIsPathSum ==
    (/\ suspended.pc = "suspended"
     /\ Len(suspended.highlight_path) >= 2
     /\ IsNowId(suspended.highlight_path[1])
     /\ IsForwardPath(suspended.highlight_path, suspended.current_links)) =>
        suspended.cumulative_months =
            ForwardPathMonths(suspended.highlight_path, suspended.current_links)

\* C24: a successful add-node with a clicked node has, for every node it
\* returns, the link with source = the clicked id, target = the node's id and
\* id = "{source}-{target}-{userId}" in the store, every link it stored is one
\* of these and carries the request's time_in_months; an add-node without a
\* clicked node stores no link.
C24_OneLinkPerNewNode ==
    (last.op = "add" /\ last.status = 200) =>
        IF last.node # Empty
        THEN /\ \A i \in 1..Len(last.ids) :
                    \E l \in links :
                        /\ l.id = LinkId(last.node, last.ids[i], last.user)
                        /\ l.source = last.node
                        /\ l.target = last.ids[i]
                        /\ l.userId = last.user
                        /\ l \notin preLinks => l.timeInMonths = last.time
             /\ \A l \in links \ preLinks :
                    /\ l.source = last.node
                    /\ \E i \in 1..Len(last.ids) : l.target = last.ids[i]
                    /\ l.timeInMonths = last.time
             /\ Cardinality(links \ preLinks) <= Len(last.ids)
        ELSE links = preLinks

\* an add-node with a clicked node stored a link that carries the request's
\* time while the link's target node carries the event's own, different time
C24_Witness ==
    /\ last.op = "add"
    /\ last.status = 200
    /\ last.node # Empty
    /\ \E l \in links \ preLinks :
          /\ l.timeInMonths = last.time
          /\ \E r \in nodes \ preNodes : r.id = l.target /\ r.timeInMonths # last.time

\* an add-node has just resumed whose clicked node was stored when it started
\* and was deleted while it was suspended
ResumedAfterDelete ==
    /\ suspended.pc = "done"
    /\ last.op = "add"
    /\ suspended.clickedStored
    /\ suspended.clicked \notin UserNodeIds(preNodes, suspended.user)

ReachableFromRoots(u) ==
    ReachFrom({r.id : r \in RootsOf(nodes, u)}, LinkPairs(links, u))

\* C22: an add-node whose clicked node X was deleted while the add-node was
\* suspended in generation still answers 200 when the generation gave valid
\* events: X is stored again, every returned node is stored with a link from
\* X, and neither X nor a node the request created can be reached from the
\* user's root.
C22_AddOutlivesDelete ==
    (ResumedAfterDelete /\ suspended.gotOk) =>
        LET u == suspended.user
            X == suspended.clicked
        IN /\ last.status = 200
           /\ X \in UserNodeIds(nodes, u)
           /\ \A i \in 1..Len(last.ids) :
                /\ last.ids[i] \in UserNodeIds(nodes, u)
                /\ \E l \in links : l.userId = u /\ l.source = X /\ l.target = last.ids[i]
           /\ ~IsNowId(X) =>
                /\ X \notin ReachableFromRoots(u)
                /\ \A i \in 1..Len(last.ids) :
                        last.ids[i] \notin NodeIds(preNodes) =>
                            last.ids[i] \notin ReachableFromRoots(u)

\* the user has a root, and the node clicked and the node generated from it
\* are stored and cannot be reached from the root
C22_Witness ==
    /\ ResumedAfterDelete
    /\ last.status = 200
    /\ ~IsNowId(suspended.clicked)
    /\ RootsOf(nodes, suspended.user) # {}
    /\ Len(last.ids) = 1
    /\ last.ids[1] # suspended.clicked
    /\ {suspended.clicked, last.ids[1]} \subseteq UserNodeIds(nodes, suspended.user)
    /\ {suspended.clicked, last.ids[1]} \cap ReachableFromRoots(suspended.user) = {}

-----------------------------------------------------------------------------
(* C31 *)

NoDuplicates(seq) == \A i, j \in 1..Len(seq) : seq[i] = seq[j] => i = j

\* the traversal has ended, by a return of the outermost call or by an exception
DfsEnded == dfs.pc \in {"done", "raised"}

\* C31: the reachability traversal of delete-node ends for every list of
\* links, self-loops, cycles and links to nodes that are not stored included;
\* no node is added to the reachable set twice, the nesting of calls never
\* exceeds the number of added nodes by more than one, and the set the
\* traversal ends with is the set of nodes reachable from the root without
\* passing through the removed node.
C31_TraversalTerminates ==
    /\ [](/\ NoDuplicates(dfs.added)
          /\ Len(dfs.stack) <= Len(dfs.added) + 1
          /\ dfs.pc = "done" =>
               /\ dfs.reachable_nodes = {dfs.added[i] : i \in 1..Len(dfs.added)}
               /\ dfs.reachable_nodes =
                    ReachableAfterRemoval(dfs.now_node, PairsOf(dfs.all_links), dfs.node_id))
    /\ ((dfs.pc = "running") ~> DfsEnded)

\* a finished traversal over a self-loop and a cycle through the root whose
\* other node is not among the user's nodes, which reached two nodes
C31_Witness ==
    /\ dfs.pc = "done"
    /\ \E i \in 1..Len(dfs.all_links) : dfs.all_links[i][2] \notin dfs.all_nodes
    /\ \E i \in 1..Len(dfs.all_links) : dfs.all_links[i][1] = dfs.all_links[i][2]
    /\ \E i, j \in 1..Len(dfs.all_links) :
         /\ i # j
         /\ dfs.all_links[i][1] = dfs.all_links[j][2]
         /\ dfs.all_links[i][2] = dfs.all_links[j][1]
    /\ Cardinality(dfs.reachable_nodes) = 2
    /\ Len(dfs.added) = 2

-----------------------------------------------------------------------------
(* C32 *)

OthersRowsKept(u) ==
    \A v \in Users \ {u} :
        /\ UserNodes(nodes, v) = UserNodes(preNodes, v)
        /\ UserLinks(links, v) = UserLinks(preLinks, v)

\* a delete-node that the foreign key of another user's link refused
RefusedForOthersLink ==
    /\ last.op = "delete" /\ last.dbError
    /\ \E l \in links : l.userId # last.user /\ l.target = last.node

\* C32: whatever a delete-node request of user u answers, the node rows and the
\* link rows of every other user are the same after it as before it; the rows
\* the request removes are rows of u.
C32_DeleteTouchesOwnRowsOnly ==
    last.op = "delete" =>
        /\ OthersRowsKept(last.user)
        /\ \A r \in preNodes \ nodes : r.userId = last.user
        /\ \A l \in preLinks \ links : l.userId = last.user

\* an accepted delete that removed rows of its user while the other user owns a
\* root node of the same id pattern
C32_Witness ==
    /\ DeleteAccepted
    /\ preNodes \ nodes # {}
    /\ preLinks \ links # {}
    /\ \E r \in nodes : r.userId # last.user /\ IsNowId(r.id)

-----------------------------------------------------------------------------
(* C33 *)

RoleRank(role) == IF role = "clicked" THEN 0 ELSE IF role = "new" THEN 1 ELSE 2

\* the insert of the clicked node has been sent
ClickedSent == Len(writer.sent) >= 1 /\ writer.sent[1].role = "clicked"

\* a request whose clicked node was stored with other values than the request
\* carries for it, and has answered
StoredClickedKept ==
    /\ writer.pc = "done"
    /\ \E row \in preNodes : row.id = writer.r.clicked /\ row # clicked_node(writer.r)

\* C33: add-node sends the insert of the clicked node first, then the inserts
\* of the new nodes, then the inserts of the links, and every link insert finds
\* its source and its target stored; when the clicked node is not among the
\* request's prior nodes and not stored, the row written for it is the
\* placeholder; no row stored before the request is changed or removed by it.
C33_WriteOrder ==
    writer.pc # "idle" =>
        /\ \A i, j \in 1..Len(writer.stmts) :
             i < j => RoleRank(writer.stmts[i].role) <= RoleRank(writer.stmts[j].role)
        /\ \A k \in 1..Len(writer.sent) : writer.sent[k].endsStored
        /\ writer.pc # "raised"
        /\ (ClickedSent /\ ~writer.r.inPrior /\ writer.r.clicked \notin NodeIds(preNodes)) =>
               /\ Placeholder(writer.r.clicked, writer.r.user) \in nodes
               /\ \A row \in nodes : row.id = writer.r.clicked =>
                                        row = Placeholder(writer.r.clicked, writer.r.user)
        /\ preNodes \subseteq nodes
        /\ preLinks \subseteq links

\* a finished request on a clicked node that was neither stored nor among the
\* prior nodes: placeholder, two new nodes and two links were written
C33_Witness ==
    /\ writer.pc = "done"
    /\ Len(writer.sent) = 5
    /\ ~writer.r.inPrior
    /\ writer.r.clicked \notin NodeIds(preNodes)
    /\ Placeholder(writer.r.clicked, writer.r.user) \in nodes
    /\ Cardinality(links \ preLinks) = 2
    /\ Cardinality(nodes \ preNodes) = 3

-----------------------------------------------------------------------------
(* C34 *)

\* C34: after an accepted delete-node every node the user still has, whose
\* image was in the object store before the request, has its image in the
\* object store after it.
C34_SurvivorsKeepImages ==
    DeleteAccepted =>
        \A row \in UserNodes(nodes, last.user) :
            (row.imageName # Empty /\ row.imageName \in preBucket) =>
                row.imageName \in bucket

-----------------------------------------------------------------------------
(* C35, C36 *)

SendAccepted == reply.op = "send" /\ reply.status = 200

SendFailed == reply.op = "send" /\ reply.status >= 400

\* C35: an accepted send_message_to_agent call of a user with a registered
\* session has mime type text/plain or audio/pcm, puts exactly one message on
\* the queue of that session and on no other queue, raises the stored message
\* count by exactly 1, and reports should_check_completeness true exactly when
\* the new count is at least 8 and even.
C35_SendForwardsOnce ==
    SendAccepted =>
        LET u == reply.user
            was == reply.active_before[u]
            q == was.queue
        IN /\ was # NoSession
           /\ reply.mime_type \in {"text/plain", "audio/pcm"}
           /\ reply.queue = q
           /\ Len(queues) = Len(reply.queues_before)
           /\ queues[q].user = u
           /\ queues[q] = [reply.queues_before[q] EXCEPT !.forwarded = @ + 1]
           /\ \A p \in 1..Len(queues) : p # q => queues[p] = reply.queues_before[p]
           /\ active_sessions[u] = [was EXCEPT !.message_count = @ + 1]
           /\ \A v \in Users \ {u} : active_sessions[v] = reply.active_before[v]
           /\ reply.message_count = was.message_count + 1
           /\ reply.should_check_completeness <=>
                (reply.message_count >= 8 /\ reply.message_count % 2 = 0)

\* the eighth message of a session, sent as audio: the check is asked for
C35_Witness ==
    /\ SendAccepted
    /\ reply.mime_type = "audio/pcm"
    /\ reply.message_count = 8
    /\ reply.should_check_completeness
    /\ active_sessions[reply.user].message_count = 8

\* C36: a send_message_to_agent call for a user without a registered session,
\* or with a mime type other than text/plain and audio/pcm, fails with an
\* error, puts nothing on any queue and leaves the queue, the message count and
\* the flag of every user's session, and the marks, as they were.
C36_FailedSendChangesNothing ==
    (reply.op = "send" /\ (\/ reply.active_before[reply.user] = NoSession
                           \/ reply.mime_type \notin {"text/plain", "audio/pcm"})) =>
        /\ SendFailed
        /\ queues = reply.queues_before
        /\ active_sessions = reply.active_before
        /\ initial_message_sent = reply.sent_before

\* a send of an unsupported mime type to a session that has forwarded messages
\* before, while the other user has no session
C36_Witness ==
    /\ SendFailed
    /\ reply.mime_type = "image/png"
    /\ reply.active_before[reply.user].message_count >= 1
    /\ \E v \in Users : reply.active_before[v] = NoSession
    /\ active_sessions = reply.active_before

-----------------------------------------------------------------------------
(* C37, C38 *)

OpenQueues(u) == {q \in 1..Len(queues) : queues[q].user = u /\ ~queues[q].closed}

\* C37: every user has at most one queue that is not closed, and an open queue
\* is the one held in active_sessions.
C37_OneOpenQueue ==
    \A u \in Users :
        /\ Cardinality(OpenQueues(u)) <= 1
        /\ \A q \in OpenQueues(u) : active_sessions[u].queue = q

\* C38: a returned start_agent_session call has put exactly one trigger on the
\* queue it created, the initial interview prompt when the user was not marked
\* when the call began and the greeting trigger otherwise, and the user is
\* marked afterwards when the initial prompt was sent; a user receives at most
\* one initial interview prompt between two cleanups; the end of an event
\* stream removes no session and no mark.
C38_OneTriggerPerStart ==
    /\ reply.op = "start" =>
         LET u == reply.user
             q == queues[reply.queue]
         IN /\ q.user = u
            /\ q.initial + q.greeting = 1
            /\ q.forwarded = 0
            /\ ~reply.marked_at_call => (q.initial = 1 /\ u \in initial_message_sent)
            /\ reply.marked_at_call => q.greeting = 1
    /\ \A u \in Users : prompts[u] <= 1
    /\ reply.op = "sse_end" =>
         /\ active_sessions = reply.active_before
         /\ initial_message_sent = reply.sent_before
         /\ queues = reply.queues_before

====
